---- MODULE Spec2Model ----
(***************************************************************************)
(* A model of the query-resolution pipeline of the AI data assistant:      *)
(* the /ask handler (app/routes/chats.py), the lightweight DeepAgent        *)
(* (app/agents/deep_agent.py), the SQL validator, the rule matcher, the     *)
(* response builder and the Redis-backed cache/session store.               *)
(*                                                                         *)
(* Python strings are sequences of one-character strings, so that strip,   *)
(* lower, startswith, substring search and the validator's regular         *)
(* expressions are computed as the code computes them.                      *)
(***************************************************************************)
EXTENDS Integers, Sequences, FiniteSets, TLC

(***************************************************************************)
(* Python values and string primitives                                     *)
(***************************************************************************)

\* Python's None (a one-element tuple holding a word: no character string equals it).
None == <<"<None>">>

\* Python truthiness of a string-or-None / list-or-None value.
Truthy(x) == x # None /\ x # <<>>

WhiteSpace == {" ", "\t", "\n"}

UpperSeq ==
  <<"A","B","C","D","E","F","G","H","I","J","K","L","M",
    "N","O","P","Q","R","S","T","U","V","W","X","Y","Z">>

LowerSeq ==
  <<"a","b","c","d","e","f","g","h","i","j","k","l","m",
    "n","o","p","q","r","s","t","u","v","w","x","y","z">>

Digits == <<"0","1","2","3","4","5","6","7","8","9">>

SeqRange(s) == {s[i] : i \in 1..Len(s)}

\* The characters matched by the regular expression class \w.
WordChars == SeqRange(UpperSeq) \cup SeqRange(LowerSeq) \cup SeqRange(Digits) \cup {"_"}

LowerChar(c) ==
  IF \E i \in 1..26 : UpperSeq[i] = c
  THEN LowerSeq[CHOOSE i \in 1..26 : UpperSeq[i] = c]
  ELSE c

\* str.lower()
Lower(s) == [i \in 1..Len(s) |-> LowerChar(s[i])]

\* str.lstrip(), str.rstrip() and str.strip() (whitespace)
RECURSIVE LStrip(_)
LStrip(s) ==
  IF s # <<>> /\ Head(s) \in WhiteSpace THEN LStrip(Tail(s)) ELSE s

RECURSIVE RStrip(_)
RStrip(s) ==
  IF s # <<>> /\ s[Len(s)] \in WhiteSpace
  THEN RStrip(SubSeq(s, 1, Len(s) - 1)) ELSE s

Strip(s) == RStrip(LStrip(s))

\* str.rstrip(";")
RECURSIVE RStripSemi(_)
RStripSemi(s) ==
  IF s # <<>> /\ s[Len(s)] = ";"
  THEN RStripSemi(SubSeq(s, 1, Len(s) - 1)) ELSE s

\* Whether `sub` occurs in `s` starting at index i.
MatchAt(sub, s, i) ==
  /\ i >= 1
  /\ i + Len(sub) - 1 <= Len(s)
  /\ \A k \in 1..Len(sub) : s[i + k - 1] = sub[k]

\* str.startswith(prefix)
StartsWith(s, prefix) == MatchAt(prefix, s, 1)

\* `sub in s`
Contains(sub, s) == \E i \in 1..(Len(s) + 1) : MatchAt(sub, s, i)

\* str(n) for a natural number n.
RECURSIVE IntToStr(_)
IntToStr(n) ==
  IF n < 10 THEN <<Digits[n + 1]>>
  ELSE IntToStr(n \div 10) \o <<Digits[(n % 10) + 1]>>

\* ", ".join(names)
RECURSIVE Join(_)
Join(names) ==
  IF names = <<>> THEN <<>>
  ELSE IF Len(names) = 1 THEN names[1]
  ELSE names[1] \o <<",", " ">> \o Join(Tail(names))

(***************************************************************************)
(* Words of the program's string literals                                  *)
(***************************************************************************)

kwSelect == <<"s","e","l","e","c","t">>
kwWith == <<"w","i","t","h">>
kwLimit == <<"l","i","m","i","t">>

\* SQLValidatorConfig.FORBIDDEN_KEYWORDS
FORBIDDEN_KEYWORDS ==
  << <<"d","r","o","p">>,
     <<"d","e","l","e","t","e">>,
     <<"u","p","d","a","t","e">>,
     <<"i","n","s","e","r","t">>,
     <<"a","l","t","e","r">>,
     <<"t","r","u","n","c","a","t","e">>,
     <<"c","r","e","a","t","e">> >>

\* SQLValidatorConfig.MAX_LIMIT
MAX_LIMIT == 1000

(***************************************************************************)
(* app/services/sql_validator.py                                           *)
(***************************************************************************)

is_select_query_anywhere(sql) ==
  Contains(kwSelect, Lower(sql)) \/ Contains(kwWith, Lower(sql))

\* is_select_query: the stripped, lowercased text starts with select or with.
is_select_query(sql) ==
  LET sql_clean == Lower(Strip(sql))
  IN  StartsWith(sql_clean, kwSelect) \/ StartsWith(sql_clean, kwWith)

\* The regular expression assertion \b at the gap before index i of s.
WordBoundary(s, i) ==
  LET before == i > 1 /\ i - 1 <= Len(s) /\ s[i - 1] \in WordChars
      after == i >= 1 /\ i <= Len(s) /\ s[i] \in WordChars
  IN  before # after

\* re.search(rf"\b{keyword}\b", s)
SearchWord(keyword, s) ==
  \E i \in 1..(Len(s) + 1) :
    /\ MatchAt(keyword, s, i)
    /\ WordBoundary(s, i)
    /\ WordBoundary(s, i + Len(keyword))

\* contains_forbidden_keywords
contains_forbidden_keywords(sql) ==
  LET sql_lower == Lower(sql)
  IN  \E k \in 1..Len(FORBIDDEN_KEYWORDS) : SearchWord(FORBIDDEN_KEYWORDS[k], sql_lower)

enforce_limit_as_written(sql) ==
  IF ~Contains(kwLimit, sql)
  THEN RStripSemi(sql) \o <<" ">> \o <<"L","I","M","I","T">> \o <<" ">>
         \o IntToStr(MAX_LIMIT) \o <<";">>
  ELSE sql

\* enforce_limit
enforce_limit(sql) ==
  IF ~Contains(kwLimit, Lower(sql))
  THEN RStripSemi(sql) \o <<" ">> \o <<"L","I","M","I","T">> \o <<" ">>
         \o IntToStr(MAX_LIMIT) \o <<";">>
  ELSE sql

\* The end (exclusive) of the longest run of characters of `set` in s from index i.
RECURSIVE RunEnd(_, _, _)
RunEnd(s, i, set) ==
  IF i <= Len(s) /\ s[i] \in set THEN RunEnd(s, i + 1, set) ELSE i

\* One attempt of \b<kw>\s+(\w+) at index i: <<matched, captured, end>>.
KeywordTableAt(kw, s, i) ==
  LET ws == i + Len(kw)
      we == RunEnd(s, ws, WhiteSpace)
      te == RunEnd(s, we, WordChars)
  IN  IF MatchAt(kw, s, i) /\ WordBoundary(s, i) /\ we > ws /\ te > we
      THEN <<TRUE, SubSeq(s, we, te - 1), te>>
      ELSE <<FALSE, <<>>, i>>

\* re.findall(r"\bfrom\s+(\w+)|\bjoin\s+(\w+)", s) from index i on, each match
\* reduced to its non-empty group (next(filter(None, word))).
RECURSIVE FindTables(_, _)
FindTables(s, i) ==
  IF i > Len(s) THEN <<>>
  ELSE LET f == KeywordTableAt(<<"f","r","o","m">>, s, i)
           j == KeywordTableAt(<<"j","o","i","n">>, s, i)
       IN  IF f[1] THEN <<f[2]>> \o FindTables(s, f[3])
           ELSE IF j[1] THEN <<j[2]>> \o FindTables(s, j[3])
           ELSE FindTables(s, i + 1)

NormalizeAllowedAsGiven(allowed_tables) ==
  IF Truthy(allowed_tables) THEN allowed_tables ELSE <<>>

\* The normalised allow-list of validate_sql: lowercased names; None counts as empty.
NormalizeAllowed(allowed_tables) ==
  IF Truthy(allowed_tables)
  THEN [i \in 1..Len(allowed_tables) |-> Lower(allowed_tables[i])]
  ELSE <<>>

\* The tables a query names that the allow-list does not hold, in order.
Unauthorized(sql, allowed_tables) ==
  LET allowed == NormalizeAllowed(allowed_tables)
  IN  SelectSeq(FindTables(Lower(sql), 1),
                LAMBDA t : allowed # <<>> /\ t \notin SeqRange(allowed))

validate_sql_scope_first(sql, allowed_tables) ==
  IF ~is_select_query(sql)
  THEN [ok |-> FALSE, err |-> "Only SELECT queries are allowed.", table |-> <<>>]
  ELSE IF Unauthorized(sql, allowed_tables) # <<>>
  THEN [ok |-> FALSE, err |-> "Unauthorized table used", table |-> Unauthorized(sql, allowed_tables)[1]]
  ELSE IF contains_forbidden_keywords(sql)
  THEN [ok |-> FALSE, err |-> "Query contains forbidden operations.", table |-> <<>>]
  ELSE [ok |-> TRUE, sql |-> enforce_limit(sql)]

\* validate_sql: [ok |-> TRUE, sql |-> rewritten] or [ok |-> FALSE, err, table].
validate_sql(sql, allowed_tables) ==
  IF ~is_select_query(sql)
  THEN [ok |-> FALSE, err |-> "Only SELECT queries are allowed.", table |-> <<>>]
  ELSE IF contains_forbidden_keywords(sql)
  THEN [ok |-> FALSE, err |-> "Query contains forbidden operations.", table |-> <<>>]
  ELSE IF Unauthorized(sql, allowed_tables) # <<>>
  THEN [ok |-> FALSE, err |-> "Unauthorized table used", table |-> Unauthorized(sql, allowed_tables)[1]]
  ELSE [ok |-> TRUE, sql |-> enforce_limit(sql)]

(***************************************************************************)
(* The table catalog, the questions and the collaborators' possible output *)
(***************************************************************************)

tOrders == <<"o","r","d","e","r","s">>
tUsers == <<"u","s","e","r","s">>
cId == <<"i","d">>
cAmount == <<"a","m","o","u","n","t">>
cName == <<"n","a","m","e">>

\* schema_cache of rule_engine.py: table -> columns, in the dict's iteration order.
schema_cache ==
  << [table |-> tOrders, columns |-> <<cId, cAmount>>],
     [table |-> tUsers, columns |-> <<cId, cName>>] >>

\* The table metadata list loaded by load_table_metadata().
metadata ==
  << [table_name |-> tOrders, columns |-> <<cId, cAmount>>],
     [table_name |-> tUsers, columns |-> <<cId, cName>>] >>

\* [t["table_name"] for t in metadata]
MetadataTableNames == [i \in 1..Len(metadata) |-> metadata[i].table_name]

qCount == <<"c","o","u","n","t"," ","o","r","d","e","r","s">>
qJoke == <<"j","o","k","e">>
qJokeUpper == <<" ","J","o","k","e">>

\* The question field of a payload: absent (None), empty, or a text.
Questions == {None, qCount, qJoke, qJokeUpper}

conv1 == <<"c","1">>
ConvIds == {conv1}

fuUsers == <<"u","s","e","r","s">>
Followups == {None, fuUsers}

sqlOrders == <<"S","E","L","E","C","T"," ","*"," ","F","R","O","M"," ","o","r","d","e","r","s">>
sqlUsers == <<"s","e","l","e","c","t"," ","i","d"," ","f","r","o","m"," ","u","s","e","r","s"," ","l","i","m","i","t"," ","5">>
sqlDelete == <<"D","E","L","E","T","E"," ","F","R","O","M"," ","o","r","d","e","r","s">>

\* What select_relevant_tables may hand its callers: the list depends on the FAISS
\* index and on the embedding service, and autonomous_run (line 92) provides for
\* an empty one.
SelectorOutputs == {<<>>, <<tOrders>>, <<tOrders, tUsers>>}

\* What generate_sql may return (the cleaned text of an LLM completion).
AuthorOutputs == {sqlOrders, sqlUsers, sqlDelete}

\* What llm_chat may return to _attempt_fix_sql.
RepairOutputs == {<<>>, sqlOrders, sqlDelete}

\* The SQL a graph agent may pass to its execute_sql tool.
ToolSqls == {sqlUsers, sqlDelete}

txtAsk == <<"o","k","?">>
txtDone == <<"d","o","n","e">>

\* The contents a graph agent's new message may carry.
Texts == {<<" ">>, txtAsk, txtDone}

\* Scalars of a result row.
IntV(n) == [t |-> "int", v |-> n]
DecV(n) == [t |-> "dec", v |-> n]
FloatV(n) == [t |-> "float", v |-> n]

\* What execute_sql may return when it does not raise.
ExecResults ==
  { [columns |-> <<cId>>, rows |-> <<>>],
    [columns |-> <<cAmount>>, rows |-> << <<IntV(42)>> >>],
    [columns |-> <<cId, cAmount>>,
     rows |-> << <<IntV(1), DecV(5)>>, <<IntV(2), DecV(7)>> >>] }

\* What generate_insight may return when it does not raise.
Insights == {txtDone}

(***************************************************************************)
(* app/services/rule_engine.py                                             *)
(***************************************************************************)

litTotal == <<"t","o","t","a","l">>

find_table_in_question_last(catalog, question) ==
  LET q == Lower(question)
      hits == {i \in 1..Len(catalog) : Contains(Lower(catalog[i].table), q)}
  IN  IF hits = {} THEN None
      ELSE catalog[CHOOSE i \in hits : \A j \in hits : i >= j].table

\* find_table_in_question, over the catalog `catalog` (schema_cache in the source):
\* the first table, in the dict's order, whose lowercased name occurs in the
\* lowercased question, or None.
find_table_in_question(catalog, question) ==
  LET q == Lower(question)
      hits == {i \in 1..Len(catalog) : Contains(Lower(catalog[i].table), q)}
  IN  IF hits = {} THEN None
      ELSE catalog[CHOOSE i \in hits : \A j \in hits : i <= j].table

\* schema_cache[table]
ColumnsOf(catalog, table) ==
  catalog[CHOOSE i \in 1..Len(catalog) : catalog[i].table = table].columns

match_rule_list_first(catalog, question) ==
  LET q == Lower(question)
      table == find_table_in_question(catalog, q)
      numeric_cols ==
        SelectSeq(ColumnsOf(catalog, table),
                  LAMBDA col : Contains(<<"a","m","o","u","n","t">>, col)
                                 \/ Contains(<<"p","r","i","c","e">>, col)
                                 \/ Contains(litTotal, col))
  IN  IF ~Truthy(table) THEN None
      ELSE IF Contains(<<"l","i","s","t">>, q) \/ Contains(<<"s","h","o","w">>, q)
      THEN <<"S","E","L","E","C","T"," ","*"," ","F","R","O","M"," ">> \o table \o <<" ","L","I","M","I","T"," ","1","0","0",";">>
      ELSE IF Contains(<<"h","o","w"," ","m","a","n","y">>, q) \/ Contains(<<"c","o","u","n","t">>, q)
      THEN <<"S","E","L","E","C","T"," ","C","O","U","N","T","(","*",")"," ","F","R","O","M"," ">> \o table \o <<";">>
      ELSE IF (Contains(litTotal, q) \/ Contains(<<"s","u","m">>, q)) /\ numeric_cols # <<>>
      THEN <<"S","E","L","E","C","T"," ","S","U","M","(">> \o numeric_cols[1] \o <<")"," ","F","R","O","M"," ">> \o table \o <<";">>
      ELSE None

\* match_rule_based_query over the catalog `catalog`: the canned SQL for a
\* question, or None.
match_rule(catalog, question) ==
  LET q == Lower(question)
      table == find_table_in_question(catalog, q)
      numeric_cols ==
        SelectSeq(ColumnsOf(catalog, table),
                  LAMBDA col : Contains(<<"a","m","o","u","n","t">>, col)
                                 \/ Contains(<<"p","r","i","c","e">>, col)
                                 \/ Contains(litTotal, col))
  IN  IF ~Truthy(table) THEN None
      ELSE IF Contains(<<"h","o","w"," ","m","a","n","y">>, q) \/ Contains(<<"c","o","u","n","t">>, q)
      THEN <<"S","E","L","E","C","T"," ","C","O","U","N","T","(","*",")"," ","F","R","O","M"," ">> \o table \o <<";">>
      ELSE IF Contains(<<"l","i","s","t">>, q) \/ Contains(<<"s","h","o","w">>, q)
      THEN <<"S","E","L","E","C","T"," ","*"," ","F","R","O","M"," ">> \o table \o <<" ","L","I","M","I","T"," ","1","0","0",";">>
      ELSE IF (Contains(litTotal, q) \/ Contains(<<"s","u","m">>, q)) /\ numeric_cols # <<>>
      THEN <<"S","E","L","E","C","T"," ","S","U","M","(">> \o numeric_cols[1] \o <<")"," ","F","R","O","M"," ">> \o table \o <<";">>
      ELSE None

\* match_rule_based_query as the handlers call it: over the module's schema_cache.
match_rule_based_query(question) == match_rule(schema_cache, question)

(***************************************************************************)
(* app/services/response_builder.py                                        *)
(***************************************************************************)

litNoResults == <<"N","o"," ","r","e","s","u","l","t","s"," ","f","o","u","n","d",".">>
litResultIs == <<"T","h","e"," ","r","e","s","u","l","t"," ","i","s"," ">>

\* str(v) of a scalar, as the f-string formats it.
ScalarStr(v) ==
  IF v.t = "float" THEN IntToStr(v.v) \o <<".", "0">> ELSE IntToStr(v.v)

\* An answer dict: every key is present here, an absent one holds its default.
TextAnswer(message) ==
  [type |-> "text", message |-> message, columns |-> <<>>, rows |-> <<>>, insight |-> None]

TableAnswer(columns, rows, insight) ==
  [type |-> "table", message |-> <<>>, columns |-> columns, rows |-> rows, insight |-> insight]

build_response_one_row(columns, rows, insight) ==
  IF rows = <<>> THEN TextAnswer(litNoResults)
  ELSE IF Len(rows) = 1
  THEN TextAnswer(litResultIs \o ScalarStr(rows[1][1]) \o <<".">>)
  ELSE TableAnswer(columns, rows, insight)

\* build_response(columns, rows, insight): lines 15-32 under the three-argument
\* signature of line 2, the one the callers use (the file also carries the
\* two-argument signature of the other side of an unresolved merge).
build_response(columns, rows, insight) ==
  IF rows = <<>> THEN TextAnswer(litNoResults)
  ELSE IF Len(columns) = 1 /\ Len(rows) = 1
  THEN TextAnswer(litResultIs \o ScalarStr(rows[1][1]) \o <<".">>)
  ELSE TableAnswer(columns, rows, insight)

(***************************************************************************)
(* app/services/cache_service.py: the Redis store                          *)
(***************************************************************************)

\* Values of the store, as Python sees them after json.loads.
NoEntry == [kind |-> "none"]
StrVal(s) == [kind |-> "str", str |-> s]
AnswerVal(a) == [kind |-> "answer", answer |-> a]
StateVal(s) == [kind |-> "state", state |-> s]

\* A conversation state dict; `keys` are the keys the dict holds.
EmptyState ==
  [keys |-> {}, history |-> <<>>, turns |-> 0, last_clarify |-> None, options |-> <<>>]

\* json_serializer and json.dumps on one scalar: a Decimal becomes a float.
JsonScalar(v) == IF v.t = "dec" THEN FloatV(v.v) ELSE v

\* json.loads(json.dumps(value, default=json_serializer))
JsonRoundTrip(value) ==
  IF value.kind = "answer"
  THEN AnswerVal([value.answer EXCEPT
         !.rows = [i \in 1..Len(@) |-> [j \in 1..Len(@[i]) |-> JsonScalar(@[i][j])]]])
  ELSE value

\* Python truthiness of what get_cache returns.
TruthyVal(v) ==
  CASE v.kind = "none" -> FALSE
    [] v.kind = "str" -> v.str # <<>>
    [] v.kind = "answer" -> TRUE
    [] v.kind = "state" -> v.state.keys # {}

\* _normalize of chats.py
_normalize(text) == Lower(Strip(IF Truthy(text) THEN text ELSE <<>>))

\* hashlib.md5(_normalize(question).encode()).hexdigest(): the digest stands for
\* the text it was computed from.
CacheKey(question) == <<"md5", _normalize(question)>>

\* f"conv:{conv_id}"
ConvKey(conv_id) == <<"conv", conv_id>>

StoreKeys ==
  {CacheKey(q) : q \in Questions \ {None}} \cup {ConvKey(c) : c \in ConvIds}

(***************************************************************************)
(* State                                                                   *)
(***************************************************************************)

\* max_iterations of autonomous_run (its default, which run() relies on).
max_iterations == 3

\* How many tool calls a graph agent makes in one invoke, at most.
MaxToolCalls == 1

\* The most turns and history entries a stored conversation may reach.
MaxTurns == 3
MaxHistory == 4

\* Worker processes: each handles one request at a time.
Reqs == {1, 2}

VARIABLES
  agentKind,  \* _agent of chats.py: "none", "deep" (DeepAgent) or "graph" (deepagents)
  store,      \* the Redis database: key -> value
  req,        \* per worker: the position and the locals of the request it handles
  log,        \* per worker: what the current request has called and written so far
  call        \* one call of a service function on its own: arguments and results

vars == <<agentKind, store, req, log, call>>

\* No service function is being called on its own.
NoCall == [fn |-> "none"]

\* A dict an agent returns; `error` and `source` are "" when the key is absent.
EmptyResult ==
  [error |-> "", source |-> "", clarify |-> FALSE, question |-> None,
   options |-> <<>>, messages |-> <<>>, answer |-> "", sql_used |-> None,
   columns |-> <<>>, rows |-> <<>>]

\* What the caller receives: nothing yet, a JSON payload, or an exception.
NoResponse ==
  [kind |-> "none", error |-> "", source |-> "", answer |-> NoEntry,
   sql_used |-> None, tables_used |-> <<>>, clarify |-> FALSE,
   conversation_id |-> None, question |-> None, options |-> <<>>]

Payload == [NoResponse EXCEPT !.kind = "payload"]
Raised == [NoResponse EXCEPT !.kind = "exception"]

IdleReq ==
  [pc |-> "idle", entry |-> "ask", question |-> None, conv_id |-> None,
   followup |-> None, cached |-> NoEntry, selected_tables |-> <<>>, history |-> <<>>,
   state |-> EmptyState, messages |-> <<>>, tools |-> 0, ar_tables |-> <<>>,
   sql_query |-> None, safe_sql |-> None, iter |-> 0, result |-> EmptyResult,
   final_text |-> <<>>, columns |-> <<>>, rows |-> <<>>, insight |-> None,
   response |-> NoResponse]

\* One call of a collaborator, as the log keeps it.
Event(op, sql, tables, out, ok) ==
  [op |-> op, sql |-> sql, tables |-> tables, out |-> out, ok |-> ok]

\* ar: whether autonomous_run has been entered and how it ended; loaded: the
\* turns counters the request read from its conversation entry, in order.
EmptyLog == [trace |-> <<>>, writes |-> <<>>, ar |-> "none", loaded |-> <<>>]

Init ==
  /\ agentKind \in {"none", "deep", "graph"}
  /\ store = [k \in StoreKeys |-> NoEntry]
  /\ req = [r \in Reqs |-> IdleReq]
  /\ log = [r \in Reqs |-> EmptyLog]
  /\ call = NoCall

\* get_cache(key): the stored value, NoEntry standing for None.
get_cache(key) == store[key]

set_cache_if_absent(key, value) ==
  IF store[key] = NoEntry THEN [store EXCEPT ![key] = JsonRoundTrip(value)] ELSE store

\* set_cache(key, value): what the store holds afterwards.
set_cache(key, value) == [store EXCEPT ![key] = JsonRoundTrip(value)]

\* The turns and the history a conversation entry holds.
StoredState(conv_id) ==
  IF store[ConvKey(conv_id)].kind = "state" THEN store[ConvKey(conv_id)].state ELSE EmptyState

\* A request may add two turns and two history entries to its conversation.
ConvRoom(conv_id) ==
  IF Truthy(conv_id)
  THEN /\ StoredState(conv_id).turns + 2 <= MaxTurns
       /\ Len(StoredState(conv_id).history) + 2 <= MaxHistory
  ELSE TRUE

UserMsg(content) == [role |-> "user", content |-> content]

(***************************************************************************)
(* app/routes/chats.py: ask_question up to the agent call                  *)
(***************************************************************************)

\* Lines 49-54: the payload arrives, its followup one of `followups`; a missing
\* question ends the request.
AskStartFrom(r, followups) ==
  /\ req[r].pc = "idle"
  /\ \E q \in Questions, c \in ConvIds \cup {None}, f \in followups :
       /\ ConvRoom(c)
       /\ req' = [req EXCEPT ![r] =
            IF ~Truthy(q)
            THEN [@ EXCEPT !.pc = "done", !.entry = "ask", !.question = q,
                           !.response = [Payload EXCEPT !.error = "question is required"]]
            ELSE [@ EXCEPT !.pc = "cache_check", !.entry = "ask", !.question = q,
                           !.conv_id = c, !.followup = f]]
  /\ UNCHANGED <<agentKind, call, store, log>>

\* POST /ask
AskStart(r) == AskStartFrom(r, Followups)

\* Lines 56-59: the answer-cache lookup.
AskCacheCheck(r) ==
  LET cached == get_cache(CacheKey(req[r].question))
  IN  /\ req[r].pc = "cache_check"
      /\ req' = [req EXCEPT ![r] =
           IF TruthyVal(cached)
           THEN [@ EXCEPT !.pc = "done", !.cached = cached,
                          !.response = [Payload EXCEPT !.answer = cached, !.source = "cache"]]
           ELSE [@ EXCEPT !.pc = "rule", !.cached = cached]]
      /\ UNCHANGED <<agentKind, call, store, log>>

\* Lines 62-65: the rule-based short-circuit.
AskRule(r) ==
  LET key == CacheKey(req[r].question)
      rule_sql == match_rule_based_query(req[r].question)
  IN  /\ req[r].pc = "rule"
      /\ IF Truthy(rule_sql)
         THEN /\ store' = set_cache(key, StrVal(rule_sql))
              /\ log' = [log EXCEPT ![r].trace = Append(@, Event("rule", None, <<>>, rule_sql, TRUE)),
                                    ![r].writes = Append(@, key)]
              /\ req' = [req EXCEPT ![r].pc = "done",
                                    ![r].response = [Payload EXCEPT !.answer = StrVal(rule_sql),
                                                       !.sql_used = rule_sql,
                                                       !.source = "rule_engine"]]
         ELSE /\ log' = [log EXCEPT ![r].trace = Append(@, Event("rule", None, <<>>, None, TRUE))]
              /\ req' = [req EXCEPT ![r].pc = "select"]
              /\ UNCHANGED store
      /\ UNCHANGED <<agentKind, call, call>>

\* Where ask_question goes after line 67.
AfterSelect(rr) ==
  IF agentKind = "none" THEN "fb_generate"
  ELSE IF Truthy(rr.conv_id) /\ Truthy(rr.followup) THEN "followup_load"
  ELSE "agent_call"

\* Line 67: select_relevant_tables; an exception leaves the handler.
AskSelect(r) ==
  /\ req[r].pc = "select"
  /\ \/ \E sel \in SelectorOutputs :
          /\ req' = [req EXCEPT ![r].selected_tables = sel, ![r].pc = AfterSelect(req[r])]
          /\ log' = [log EXCEPT ![r].trace = Append(@, Event("select", None, sel, None, TRUE))]
     \/ /\ req' = [req EXCEPT ![r].pc = "done", ![r].response = Raised]
        /\ log' = [log EXCEPT ![r].trace = Append(@, Event("select", None, <<>>, None, FALSE))]
  /\ UNCHANGED <<agentKind, call, store>>

\* Lines 74-75: the stored conversation is read.
AskFollowupLoad(r) ==
  LET got == get_cache(ConvKey(req[r].conv_id))
      state == IF TruthyVal(got) THEN got.state ELSE EmptyState
  IN  /\ req[r].pc = "followup_load"
      /\ req' = [req EXCEPT ![r].state = state, ![r].pc = "followup_save"]
      /\ log' = [log EXCEPT ![r].loaded = Append(@, state.turns)]
      /\ UNCHANGED <<agentKind, call, store>>

FollowupKeyWrong(rr) == CacheKey(rr.question)

\* Line 74: the key the follow-up's state is written under.
FollowupKey(rr) == ConvKey(rr.conv_id)

AskFollowupSaveMerged(r) ==
  LET stored == StoredState(req[r].conv_id)
      history == Append(stored.history, UserMsg(req[r].followup))
      state == [stored EXCEPT !.history = history, !.turns = @ + 1,
                              !.keys = @ \cup {"history", "turns"}]
      conv_key == FollowupKey(req[r])
  IN  /\ req[r].pc = "followup_save"
      /\ store' = set_cache(conv_key, StateVal(state))
      /\ req' = [req EXCEPT ![r].history = history, ![r].state = state, ![r].pc = "agent_call"]
      /\ log' = [log EXCEPT ![r].writes = Append(@, conv_key)]
      /\ UNCHANGED <<agentKind, call>>

\* Lines 76-80: the follow-up is appended, turns incremented, the state written.
AskFollowupSave(r) ==
  LET history == Append(req[r].state.history, UserMsg(req[r].followup))
      state == [req[r].state EXCEPT !.history = history, !.turns = @ + 1,
                                    !.keys = @ \cup {"history", "turns"}]
      conv_key == FollowupKey(req[r])
  IN  /\ req[r].pc = "followup_save"
      /\ store' = set_cache(conv_key, StateVal(state))
      /\ req' = [req EXCEPT ![r].history = history, ![r].state = state, ![r].pc = "agent_call"]
      /\ log' = [log EXCEPT ![r].writes = Append(@, conv_key)]
      /\ UNCHANGED <<agentKind, call, call>>

\* An exception inside the agent: _agent_call turns it into {"error": str(e)};
\* a direct caller of DeepAgent.run sees it raised.
AgentRaise(rr) ==
  IF rr.entry = "ask"
  THEN [rr EXCEPT !.result = [EmptyResult EXCEPT !.error = "exception"], !.pc = "after_agent"]
  ELSE [rr EXCEPT !.response = Raised, !.pc = "done"]

\* The agent returns `result`.
AgentReturn(rr, result) ==
  [rr EXCEPT !.result = result, !.pc = IF rr.entry = "ask" THEN "after_agent" ELSE "done"]

\* Lines 82 and 30-44: _agent_call(question if not history else None, history).
AskAgentCall(r) ==
  /\ req[r].pc = "agent_call"
  /\ req' = [req EXCEPT ![r] =
       IF agentKind = "graph"
       THEN [@ EXCEPT !.pc = "graph_run",
                      !.messages = IF req[r].history # <<>> THEN req[r].history
                                   ELSE <<UserMsg(req[r].question)>>]
       ELSE IF req[r].history # <<>>
       THEN AgentRaise(@)
       ELSE [@ EXCEPT !.pc = "run_rule"]]
  /\ UNCHANGED <<agentKind, call, store, log>>

(***************************************************************************)
(* app/agents/deep_agent.py: DeepAgent                                     *)
(***************************************************************************)

\* A direct call of DeepAgent.run(question).
RunStart(r) ==
  /\ req[r].pc = "idle"
  /\ agentKind = "deep"
  /\ \E q \in Questions \ {None} :
       req' = [req EXCEPT ![r].pc = "run_rule", ![r].entry = "run", ![r].question = q]
  /\ UNCHANGED <<agentKind, call, store, log>>

\* run, lines 152-153 and 167: the rule-based fast path, else autonomous_run.
RunRule(r) ==
  LET sql_query == match_rule_based_query(req[r].question)
  IN  /\ req[r].pc = "run_rule"
      /\ req' = [req EXCEPT ![r].sql_query = sql_query,
                            ![r].pc = IF Truthy(sql_query) THEN "run_exec" ELSE "ar_select"]
      /\ log' = [log EXCEPT ![r].trace = Append(@, Event("rule", None, <<>>, sql_query, TRUE))]
      /\ UNCHANGED <<agentKind, call, store>>

\* run, lines 154-164: the rule SQL goes to execute_sql as it is.
RunExec(r) ==
  /\ req[r].pc = "run_exec"
  /\ \/ \E res \in ExecResults :
          /\ req' = [req EXCEPT ![r] = AgentReturn(@,
                       [EmptyResult EXCEPT !.answer = "(Rule-based answer)",
                                           !.sql_used = req[r].sql_query,
                                           !.columns = res.columns, !.rows = res.rows,
                                           !.source = "rule_engine"])]
          /\ log' = [log EXCEPT ![r].trace =
                       Append(@, Event("execute", req[r].sql_query, <<>>, None, TRUE))]
     \/ /\ req' = [req EXCEPT ![r] = AgentReturn(@,
                     [EmptyResult EXCEPT !.error = "Rule-based execution failed",
                                         !.source = "rule_engine"])]
        /\ log' = [log EXCEPT ![r].trace =
                     Append(@, Event("execute", req[r].sql_query, <<>>, None, FALSE))]
  /\ UNCHANGED <<agentKind, call, store>>

\* autonomous_run, lines 89-104: table selection; no table means a clarify payload.
ArSelect(r) ==
  /\ req[r].pc = "ar_select"
  /\ \/ \E sel \in SelectorOutputs :
          /\ req' = [req EXCEPT ![r] =
               IF sel = <<>>
               THEN AgentReturn([@ EXCEPT !.ar_tables = sel],
                      [EmptyResult EXCEPT !.clarify = TRUE,
                         !.question = <<"I"," ","c","o","u","l","d","n","'","t"," ","d","e","t","e","r","m","i","n","e"," ","w","h","i","c","h"," ","t","a","b","l","e"," ","y","o","u"," ","m","e","a","n","t","."," ","W","h","i","c","h"," ","o","f"," ","t","h","e","s","e"," ","t","a","b","l","e","s"," ","s","h","o","u","l","d"," ","I"," ","u","s","e","?"," ">> \o Join(MetadataTableNames),
                         !.options = MetadataTableNames,
                         !.source = "deep_agent"])
               ELSE [@ EXCEPT !.ar_tables = sel, !.sql_query = None, !.iter = 0,
                              !.pc = "ar_loop"]]
          /\ log' = [log EXCEPT ![r].trace = Append(@, Event("select", None, sel, None, TRUE)),
                                ![r].ar = IF sel = <<>> THEN "returned" ELSE "running"]
     \/ /\ req' = [req EXCEPT ![r] = AgentRaise(@)]
        /\ log' = [log EXCEPT ![r].trace = Append(@, Event("select", None, <<>>, None, FALSE)),
                              ![r].ar = "raised"]
  /\ UNCHANGED <<agentKind, call, store>>

LoopContinuesOneMore(iter) == iter <= max_iterations

\* autonomous_run, line 105: for _ in range(max_iterations).
LoopContinues(iter) == iter < max_iterations

ArLoopRegenerates(r) ==
  /\ req[r].pc = "ar_loop"
  /\ IF LoopContinues(req[r].iter)
     THEN /\ req' = [req EXCEPT ![r].pc = "ar_generate"]
          /\ UNCHANGED log
     ELSE /\ req' = [req EXCEPT ![r] = AgentReturn(@,
                       [EmptyResult EXCEPT
                          !.error = "Unable to produce a valid SQL after multiple attempts.",
                          !.source = "deep_agent"])]
          /\ log' = [log EXCEPT ![r].ar = "returned"]
  /\ UNCHANGED <<agentKind, call, store>>

\* autonomous_run, lines 105-107 and 136: the head of the for loop.
ArLoop(r) ==
  /\ req[r].pc = "ar_loop"
  /\ IF LoopContinues(req[r].iter)
     THEN /\ req' = [req EXCEPT ![r].pc = IF ~Truthy(req[r].sql_query) THEN "ar_generate"
                                          ELSE "ar_validate"]
          /\ UNCHANGED log
     ELSE /\ req' = [req EXCEPT ![r] = AgentReturn(@,
                       [EmptyResult EXCEPT
                          !.error = "Unable to produce a valid SQL after multiple attempts.",
                          !.source = "deep_agent"])]
          /\ log' = [log EXCEPT ![r].ar = "returned"]
  /\ UNCHANGED <<agentKind, call, store>>

AuthorFailedRetry(rr) == [rr EXCEPT !.iter = @ + 1, !.pc = "ar_loop"]

\* autonomous_run, lines 110-111: an authoring failure is returned as an error.
AuthorFailed(rr) ==
  AgentReturn(rr, [EmptyResult EXCEPT !.error = "SQL generation failed",
                                      !.source = "llm_generation"])

\* autonomous_run, lines 108-111: generate_sql, whose failure ends the turn.
ArGenerate(r) ==
  /\ req[r].pc = "ar_generate"
  /\ \/ \E sql \in AuthorOutputs :
          /\ req' = [req EXCEPT ![r].sql_query = sql, ![r].pc = "ar_validate"]
          /\ log' = [log EXCEPT ![r].trace =
                       Append(@, Event("author", None, req[r].ar_tables, sql, TRUE))]
     \/ /\ req' = [req EXCEPT ![r] = AuthorFailed(@)]
        /\ log' = [log EXCEPT ![r].trace =
                     Append(@, Event("author", None, req[r].ar_tables, None, FALSE)),
                              ![r].ar = "returned"]
  /\ UNCHANGED <<agentKind, call, store>>

\* autonomous_run, lines 114-115 and 129: validate_sql on the candidate.
ArValidate(r) ==
  LET v == validate_sql(req[r].sql_query, req[r].ar_tables)
  IN  /\ req[r].pc = "ar_validate"
      /\ req' = [req EXCEPT ![r] =
           IF v.ok THEN [@ EXCEPT !.safe_sql = v.sql, !.pc = "ar_execute"]
           ELSE [@ EXCEPT !.pc = "ar_repair"]]
      /\ log' = [log EXCEPT ![r].trace =
                   Append(@, Event("validate", req[r].sql_query, req[r].ar_tables,
                                   IF v.ok THEN v.sql ELSE None, v.ok))]
      /\ UNCHANGED <<agentKind, call, store>>

ExecFailedRepair(rr) == [rr EXCEPT !.pc = "ar_repair"]

\* autonomous_run, lines 119-120: an execution failure is returned as an error.
ExecFailed(rr) ==
  AgentReturn(rr, [EmptyResult EXCEPT !.error = "Execution failed",
                                      !.source = "execution"])

\* autonomous_run, lines 117-128: execute_sql on the validated SQL, then return.
ArExecute(r) ==
  /\ req[r].pc = "ar_execute"
  /\ \/ \E res \in ExecResults :
          /\ req' = [req EXCEPT ![r] = AgentReturn(@,
                       [EmptyResult EXCEPT !.answer = "Query executed successfully.",
                                           !.sql_used = req[r].safe_sql,
                                           !.columns = res.columns, !.rows = res.rows,
                                           !.source = "deep_agent"])]
          /\ log' = [log EXCEPT ![r].trace =
                       Append(@, Event("execute", req[r].safe_sql, <<>>, None, TRUE)),
                                ![r].ar = "returned"]
     \/ /\ req' = [req EXCEPT ![r] = ExecFailed(@)]
        /\ log' = [log EXCEPT ![r].trace =
                     Append(@, Event("execute", req[r].safe_sql, <<>>, None, FALSE)),
                              ![r].ar = "returned"]
  /\ UNCHANGED <<agentKind, call, store>>

\* _attempt_fix_sql, line 70: fixed.strip() if fixed else None.
Fixed(raw) == IF Truthy(raw) THEN Strip(raw) ELSE None

RepairUnusableError(rr) ==
  AgentReturn(rr, [EmptyResult EXCEPT !.error = "Could not fix the SQL",
                                      !.source = "deep_agent"])

\* autonomous_run, lines 132-133: no usable repair is returned as a clarify payload
\* (the source spells the dash of its question as U+2014).
RepairUnusable(rr) ==
  AgentReturn(rr, [EmptyResult EXCEPT !.clarify = TRUE, !.question = <<"I"," ","c","o","u","l","d"," ","n","o","t"," ","f","i","x"," ","t","h","e"," ","S","Q","L"," ","-"," ","c","a","n"," ","y","o","u"," ","c","l","a","r","i","f","y"," ","t","h","e"," ","d","e","s","i","r","e","d"," ","c","o","l","u","m","n","s"," ","o","r"," ","t","a","b","l","e","?">>,
                                      !.source = "deep_agent"])

\* autonomous_run, lines 130-134: the repair; nothing usable means a clarify payload.
ArRepair(r) ==
  /\ req[r].pc = "ar_repair"
  /\ \/ \E raw \in RepairOutputs :
          LET fixed == Fixed(raw)
          IN  /\ req' = [req EXCEPT ![r] =
                   IF ~Truthy(fixed)
                   THEN RepairUnusable(@)
                   ELSE [@ EXCEPT !.sql_query = fixed, !.iter = @ + 1, !.pc = "ar_loop"]]
              /\ log' = [log EXCEPT ![r].trace =
                           Append(@, Event("repair", req[r].sql_query, req[r].ar_tables,
                                           fixed, TRUE)),
                                    ![r].ar = IF ~Truthy(fixed) THEN "returned" ELSE @]
     \/ /\ req' = [req EXCEPT ![r] = AgentRaise(@)]
        /\ log' = [log EXCEPT ![r].trace =
                     Append(@, Event("repair", req[r].sql_query, req[r].ar_tables, None, FALSE)),
                              ![r].ar = "raised"]
  /\ UNCHANGED <<agentKind, call, store>>

(***************************************************************************)
(* app/agents/deep_agent.py: the deepagents graph and its tools            *)
(***************************************************************************)

\* execute_sql_tool, lines 225-229, called by the graph during invoke: the SQL
\* is validated against every table of the metadata, then executed.
GraphTool(r) ==
  /\ req[r].pc = "graph_run"
  /\ req[r].tools < MaxToolCalls
  /\ \E sql \in ToolSqls, execOk \in BOOLEAN :
       LET v == validate_sql(sql, MetadataTableNames)
           validated == Event("validate", sql, MetadataTableNames,
                              IF v.ok THEN v.sql ELSE None, v.ok)
       IN  /\ (~v.ok => execOk)
           /\ log' = [log EXCEPT ![r].trace =
                IF v.ok THEN Append(Append(@, validated),
                                    Event("execute", v.sql, <<>>, None, execOk))
                ELSE Append(@, validated)]
  /\ req' = [req EXCEPT ![r].tools = @ + 1]
  /\ UNCHANGED <<agentKind, call, store>>

\* _agent.invoke, line 38: the graph returns its messages (those it was given
\* and at most one new one), or raises.
GraphReturn(r) ==
  /\ req[r].pc = "graph_run"
  /\ \/ req' = [req EXCEPT ![r] = AgentReturn(@,
                  [EmptyResult EXCEPT !.messages = req[r].messages])]
     \/ \E text \in Texts :
          req' = [req EXCEPT ![r] = AgentReturn(@,
                    [EmptyResult EXCEPT !.messages =
                       Append(req[r].messages, [role |-> "assistant", content |-> text])])]
     \/ req' = [req EXCEPT ![r] = AgentRaise(@)]
  /\ UNCHANGED <<agentKind, call, store, log>>

(***************************************************************************)
(* app/routes/chats.py: ask_question after the agent call                  *)
(***************************************************************************)

triggers ==
  << <<"p","l","e","a","s","e"," ","s","p","e","c","i","f","y">>,
     <<"c","o","u","l","d"," ","y","o","u">>,
     <<"w","h","i","c","h">>,
     <<"d","o"," ","y","o","u"," ","m","e","a","n">>,
     <<"c","l","a","r","i","f","y">>,
     <<"c","o","u","l","d"," ","y","o","u"," ","p","l","e","a","s","e">>,
     <<"w","h","i","c","h"," ","m","e","t","r","i","c">>,
     <<"d","o"," ","y","o","u"," ","w","a","n","t">>,
     <<"w","o","u","l","d"," ","y","o","u"," ","l","i","k","e">>,
     <<"w","h","i","c","h"," ","o","f"," ","t","h","e"," ","f","o","l","l","o","w","i","n","g">> >>

\* _is_clarifying, lines 127-145
_is_clarifying(text) ==
  IF text = <<>> THEN FALSE
  ELSE IF Contains(<<"?">>, text) THEN TRUE
  ELSE \E k \in 1..Len(triggers) : Contains(triggers[k], Lower(text))

\* _get_msg_content and _infer_role on a message dict, lines 102-125
_get_msg_content(m) == m.content
_infer_role(m) == m.role

\* Lines 156-157: the history a clarification stores.
NormalizedHistory(messages) ==
  [i \in 1..Len(messages) |->
     [role |-> _infer_role(messages[i]), content |-> _get_msg_content(messages[i])]]

\* Line 168: the contents of the assistant's messages.
AssistantTexts(messages) ==
  LET mine == SelectSeq(messages, LAMBDA m : _infer_role(m) = "assistant")
  IN  [i \in 1..Len(mine) |-> _get_msg_content(mine[i])]

\* uuid.uuid4().hex: an id no stored conversation uses.
FreshConvIds == {c \in ConvIds : store[ConvKey(c)] = NoEntry}

AskAfterAgentRollsBack(r) ==
  LET result == req[r].result
      messages == result.messages
      last_text == Strip(_get_msg_content(messages[Len(messages)]))
      assistant_texts == AssistantTexts(messages)
  IN  /\ req[r].pc = "after_agent"
      /\ IF result.error # ""
         THEN /\ req' = [req EXCEPT ![r].pc = "done",
                                    ![r].response = [Payload EXCEPT !.error = result.error]]
              /\ store' = IF Truthy(req[r].conv_id)
                          THEN set_cache(ConvKey(req[r].conv_id), StateVal(EmptyState))
                          ELSE store
         ELSE /\ UNCHANGED store
              /\ IF messages # <<>> /\ _is_clarifying(last_text)
                 THEN \E c \in (IF Truthy(req[r].conv_id) THEN {req[r].conv_id} ELSE FreshConvIds) :
                        req' = [req EXCEPT ![r].conv_id = c, ![r].pc = "clarify_load"]
                 ELSE IF messages # <<>> /\ assistant_texts # <<>>
                 THEN req' = [req EXCEPT ![r].final_text = Strip(assistant_texts[Len(assistant_texts)]),
                                         ![r].pc = "text_cache"]
                 ELSE req' = [req EXCEPT ![r].columns = result.columns, ![r].rows = result.rows,
                                         ![r].pc = "insight"]
      /\ UNCHANGED <<agentKind, call, log>>

\* Lines 84-85, 99-101, 147-152 and 166-170: what the agent's result leads to.
AskAfterAgent(r) ==
  LET result == req[r].result
      messages == result.messages
      last_text == Strip(_get_msg_content(messages[Len(messages)]))
      assistant_texts == AssistantTexts(messages)
  IN  /\ req[r].pc = "after_agent"
      /\ IF result.error # ""
         THEN req' = [req EXCEPT ![r].pc = "done",
                                 ![r].response = [Payload EXCEPT !.error = result.error]]
         ELSE IF messages # <<>> /\ _is_clarifying(last_text)
         THEN \E c \in (IF Truthy(req[r].conv_id) THEN {req[r].conv_id} ELSE FreshConvIds) :
                req' = [req EXCEPT ![r].conv_id = c, ![r].pc = "clarify_load"]
         ELSE IF messages # <<>> /\ assistant_texts # <<>>
         THEN req' = [req EXCEPT ![r].final_text = Strip(assistant_texts[Len(assistant_texts)]),
                                 ![r].pc = "text_cache"]
         ELSE req' = [req EXCEPT ![r].columns = result.columns, ![r].rows = result.rows,
                                 ![r].pc = "insight"]
      /\ UNCHANGED <<agentKind, call, store, log>>

\* Line 159: the stored conversation is read.
AskClarifyLoad(r) ==
  LET got == get_cache(ConvKey(req[r].conv_id))
      state == IF TruthyVal(got) THEN got.state ELSE EmptyState
  IN  /\ req[r].pc = "clarify_load"
      /\ req' = [req EXCEPT ![r].state = state, ![r].pc = "clarify_save"]
      /\ log' = [log EXCEPT ![r].loaded = Append(@, state.turns)]
      /\ UNCHANGED <<agentKind, call, store>>

AskClarifySaveCached(r) ==
  LET messages == req[r].result.messages
      last_text == Strip(_get_msg_content(messages[Len(messages)]))
      state == [req[r].state EXCEPT !.history = NormalizedHistory(messages),
                                    !.turns = @ + 1,
                                    !.last_clarify = last_text,
                                    !.options = req[r].result.options,
                                    !.keys = {"history", "turns", "last_clarify", "options"}]
      conv_key == ConvKey(req[r].conv_id)
      key == CacheKey(req[r].question)
  IN  /\ req[r].pc = "clarify_save"
      /\ store' = [store EXCEPT ![conv_key] = StateVal(state), ![key] = StrVal(last_text)]
      /\ log' = [log EXCEPT ![r].writes = Append(Append(@, conv_key), key)]
      /\ req' = [req EXCEPT ![r].state = state, ![r].pc = "done",
                            ![r].response = [Payload EXCEPT !.clarify = TRUE,
                                               !.conversation_id = req[r].conv_id,
                                               !.question = last_text,
                                               !.options = state.options,
                                               !.source = "deep_agent"]]
      /\ UNCHANGED <<agentKind, call>>

AskClarifySaveSameTurns(r) ==
  LET messages == req[r].result.messages
      last_text == Strip(_get_msg_content(messages[Len(messages)]))
      state == [req[r].state EXCEPT !.history = NormalizedHistory(messages),
                                    !.last_clarify = last_text,
                                    !.options = req[r].result.options,
                                    !.keys = {"history", "turns", "last_clarify", "options"}]
      conv_key == ConvKey(req[r].conv_id)
  IN  /\ req[r].pc = "clarify_save"
      /\ store' = set_cache(conv_key, StateVal(state))
      /\ log' = [log EXCEPT ![r].writes = Append(@, conv_key)]
      /\ req' = [req EXCEPT ![r].state = state, ![r].pc = "done",
                            ![r].response = [Payload EXCEPT !.clarify = TRUE,
                                               !.conversation_id = req[r].conv_id,
                                               !.question = last_text,
                                               !.options = state.options,
                                               !.source = "deep_agent"]]
      /\ UNCHANGED <<agentKind, call>>

\* Lines 155-165: the clarification is stored and returned.
AskClarifySave(r) ==
  LET messages == req[r].result.messages
      last_text == Strip(_get_msg_content(messages[Len(messages)]))
      state == [req[r].state EXCEPT !.history = NormalizedHistory(messages),
                                    !.turns = @ + 1,
                                    !.last_clarify = last_text,
                                    !.options = req[r].result.options,
                                    !.keys = {"history", "turns", "last_clarify", "options"}]
      conv_key == ConvKey(req[r].conv_id)
  IN  /\ req[r].pc = "clarify_save"
      /\ store' = set_cache(conv_key, StateVal(state))
      /\ log' = [log EXCEPT ![r].writes = Append(@, conv_key)]
      /\ req' = [req EXCEPT ![r].state = state, ![r].pc = "done",
                            ![r].response = [Payload EXCEPT !.clarify = TRUE,
                                               !.conversation_id = req[r].conv_id,
                                               !.question = last_text,
                                               !.options = state.options,
                                               !.source = "deep_agent"]]
      /\ UNCHANGED <<agentKind, call, call>>

\* Lines 170-171 and 175: the assistant's last text is cached as the answer.
AskTextCache(r) ==
  LET key == CacheKey(req[r].question)
  IN  /\ req[r].pc = "text_cache"
      /\ store' = set_cache(key, StrVal(req[r].final_text))
      /\ log' = [log EXCEPT ![r].writes = Append(@, key)]
      /\ req' = [req EXCEPT ![r].pc = IF Truthy(req[r].conv_id) THEN "conv_clear" ELSE "done",
                            ![r].response = [Payload EXCEPT
                                               !.answer = AnswerVal(TextAnswer(req[r].final_text)),
                                               !.source = "deep_agent"]]
      /\ UNCHANGED <<agentKind, call, call>>

AskConvKeep(r) ==
  /\ req[r].pc = "conv_clear"
  /\ req' = [req EXCEPT ![r].pc = "done"]
  /\ UNCHANGED <<agentKind, call, store, log>>

\* Lines 173-174 and 191-192: the conversation entry is reset to {}.
AskConvClear(r) ==
  LET conv_key == ConvKey(req[r].conv_id)
  IN  /\ req[r].pc = "conv_clear"
      /\ store' = set_cache(conv_key, StateVal(EmptyState))
      /\ log' = [log EXCEPT ![r].writes = Append(@, conv_key)]
      /\ req' = [req EXCEPT ![r].pc = "done"]
      /\ UNCHANGED <<agentKind, call, call>>

InsightStepFailing(r, from, to) ==
  /\ req[r].pc = from
  /\ IF Len(req[r].rows) > 1
     THEN \/ \E text \in Insights :
               /\ req' = [req EXCEPT ![r].insight = text, ![r].pc = to]
               /\ log' = [log EXCEPT ![r].trace = Append(@, Event("insight", None, <<>>, text, TRUE))]
          \/ /\ req' = [req EXCEPT ![r].pc = "done",
                                   ![r].response = [Payload EXCEPT !.error = "insight failed"]]
             /\ log' = [log EXCEPT ![r].trace = Append(@, Event("insight", None, <<>>, None, FALSE))]
     ELSE /\ req' = [req EXCEPT ![r].insight = None, ![r].pc = to]
          /\ UNCHANGED log
  /\ UNCHANGED <<agentKind, call, store>>

\* Lines 181-187 (and 208-213): generate_insight for more than one row; its
\* failure leaves insight None.
InsightStep(r, from, to) ==
  /\ req[r].pc = from
  /\ IF Len(req[r].rows) > 1
     THEN \/ \E text \in Insights :
               /\ req' = [req EXCEPT ![r].insight = text, ![r].pc = to]
               /\ log' = [log EXCEPT ![r].trace = Append(@, Event("insight", None, <<>>, text, TRUE))]
          \/ /\ req' = [req EXCEPT ![r].insight = None, ![r].pc = to]
             /\ log' = [log EXCEPT ![r].trace = Append(@, Event("insight", None, <<>>, None, FALSE))]
     ELSE /\ req' = [req EXCEPT ![r].insight = None, ![r].pc = to]
          /\ UNCHANGED log
  /\ UNCHANGED <<agentKind, call, store>>

AskInsight(r) == InsightStep(r, "insight", "answer_cache")

\* Lines 188-193: the answer is shaped, cached and returned.
AskAnswerCache(r) ==
  LET key == CacheKey(req[r].question)
      answer == build_response(req[r].columns, req[r].rows, req[r].insight)
  IN  /\ req[r].pc = "answer_cache"
      /\ store' = set_cache(key, AnswerVal(answer))
      /\ log' = [log EXCEPT ![r].writes = Append(@, key)]
      /\ req' = [req EXCEPT ![r].pc = IF Truthy(req[r].conv_id) THEN "conv_clear" ELSE "done",
                            ![r].response = [Payload EXCEPT
                                               !.answer = AnswerVal(answer),
                                               !.sql_used = req[r].result.sql_used,
                                               !.tables_used = req[r].selected_tables,
                                               !.source = "deep_agent"]]
      /\ UNCHANGED <<agentKind, call, call>>

(***************************************************************************)
(* app/routes/chats.py: the fallback LLM path (no agent configured)        *)
(***************************************************************************)

\* Lines 196-200: generate_sql on the selected tables.
FbGenerate(r) ==
  /\ req[r].pc = "fb_generate"
  /\ \/ \E sql \in AuthorOutputs :
          /\ req' = [req EXCEPT ![r].sql_query = sql, ![r].pc = "fb_execute"]
          /\ log' = [log EXCEPT ![r].trace =
                       Append(@, Event("author", None, req[r].selected_tables, sql, TRUE))]
     \/ /\ req' = [req EXCEPT ![r].pc = "done",
                              ![r].response = [Payload EXCEPT !.error = "sql generation failed"]]
        /\ log' = [log EXCEPT ![r].trace =
                     Append(@, Event("author", None, req[r].selected_tables, None, FALSE))]
  /\ UNCHANGED <<agentKind, call, store>>

\* Lines 202-206: execute_sql on the generated SQL.
FbExecute(r) ==
  /\ req[r].pc = "fb_execute"
  /\ \/ \E res \in ExecResults :
          /\ req' = [req EXCEPT ![r].columns = res.columns, ![r].rows = res.rows,
                                ![r].pc = "fb_insight"]
          /\ log' = [log EXCEPT ![r].trace =
                       Append(@, Event("execute", req[r].sql_query, <<>>, None, TRUE))]
     \/ /\ req' = [req EXCEPT ![r].pc = "done",
                              ![r].response = [Payload EXCEPT !.error = "db execution failed"]]
        /\ log' = [log EXCEPT ![r].trace =
                     Append(@, Event("execute", req[r].sql_query, <<>>, None, FALSE))]
  /\ UNCHANGED <<agentKind, call, store>>

FbInsight(r) == InsightStep(r, "fb_insight", "fb_cache")

\* Lines 215-217: the answer is shaped, cached and returned.
FbCache(r) ==
  LET key == CacheKey(req[r].question)
      answer == build_response(req[r].columns, req[r].rows, req[r].insight)
  IN  /\ req[r].pc = "fb_cache"
      /\ store' = set_cache(key, AnswerVal(answer))
      /\ log' = [log EXCEPT ![r].writes = Append(@, key)]
      /\ req' = [req EXCEPT ![r].pc = "done",
                            ![r].response = [Payload EXCEPT
                                               !.answer = AnswerVal(answer),
                                               !.sql_used = req[r].sql_query,
                                               !.tables_used = req[r].selected_tables,
                                               !.source = "llm_sql_generator"]]
      /\ UNCHANGED <<agentKind, call, call>>

(***************************************************************************)
(* The environment and the specification                                   *)
(***************************************************************************)

\* The response has been delivered: the worker is free for the next request.
Finish(r) ==
  /\ req[r].pc = "done"
  /\ req' = [req EXCEPT ![r] = IdleReq]
  /\ log' = [log EXCEPT ![r] = EmptyLog]
  /\ UNCHANGED <<agentKind, call, store>>

\* redis setex: an entry disappears when its TTL runs out.
Expire(k) ==
  /\ store[k] # NoEntry
  /\ store' = [store EXCEPT ![k] = NoEntry]
  /\ UNCHANGED <<agentKind, call, req, log>>

\* One step of the request worker r handles.
Step(r) ==
  \/ AskCacheCheck(r) \/ AskRule(r) \/ AskSelect(r)
  \/ AskFollowupLoad(r) \/ AskFollowupSave(r) \/ AskAgentCall(r)
  \/ RunRule(r) \/ RunExec(r)
  \/ ArSelect(r) \/ ArLoop(r) \/ ArGenerate(r) \/ ArValidate(r)
  \/ ArExecute(r) \/ ArRepair(r)
  \/ GraphTool(r) \/ GraphReturn(r)
  \/ AskAfterAgent(r) \/ AskClarifyLoad(r) \/ AskClarifySave(r)
  \/ AskTextCache(r) \/ AskConvClear(r) \/ AskInsight(r) \/ AskAnswerCache(r)
  \/ FbGenerate(r) \/ FbExecute(r) \/ FbInsight(r) \/ FbCache(r)
  \/ Finish(r)

\* One worker process: requests are handled one after the other.
Next ==
  \/ AskStart(1)
  \/ RunStart(1)
  \/ Step(1)
  \/ \E k \in StoreKeys : Expire(k)

Spec == Init /\ [][Next]_vars

(***************************************************************************)
(* The service functions called on their own                               *)
(***************************************************************************)

tOrdersCap == <<"O","r","d","e","r","s">>
tCustomers == <<"c","u","s","t","o","m","e","r","s">>

\* Table names a query may be written with.
QueryTables == {tOrders, tOrdersCap, tUsers, tCustomers}

litSelectFrom == <<"S","E","L","E","C","T"," ","*"," ","F","R","O","M"," ">>

\* A read query over the tables `tabs`, in the order it names them.
BuiltQuery(tabs) ==
  IF Len(tabs) = 1 THEN litSelectFrom \o tabs[1]
  ELSE litSelectFrom \o tabs[1] \o <<" ","J","O","I","N"," ">> \o tabs[2] \o <<" ","O","N"," ","1">>

TableLists ==
  {<<t>> : t \in QueryTables} \cup {<<t, u>> : t \in QueryTables, u \in QueryTables}

sqlLimitSemi == <<"s","e","l","e","c","t"," ","i","d"," ","f","r","o","m"," ","u","s","e","r","s"," ","L","I","M","I","T"," ","5",";">>
sqlSemis == <<"s","e","l","e","c","t"," ","1",";",";">>

\* SQL strings validate_sql is given besides the built queries: leading blanks,
\* a CTE, words that only begin like SELECT or WITH, EXPLAIN, the empty and the
\* blank string, stacked statements, a forbidden word inside a name or a literal,
\* a comma join, a subquery, a parenthesised query, a trailing semicolon, a
\* column whose name holds the letters limit.
ValidatorSqls ==
  {sqlOrders, sqlUsers, sqlDelete, sqlLimitSemi}
  \cup
  { <<" "," ","S","e","l","e","c","t"," ","1">>,
    <<"W","I","T","H"," ","x"," ","A","S"," ","(","S","E","L","E","C","T"," ","1",")"," ","S","E","L","E","C","T"," ","*"," ","F","R","O","M"," ","x">>,
    <<"s","e","l","e","c","t","x"," ","f","r","o","m"," ","o","r","d","e","r","s">>,
    <<"w","i","t","h","o","u","t"," ","1">>,
    <<"e","x","p","l","a","i","n"," ","s","e","l","e","c","t"," ","1">>,
    <<>>,
    <<" "," "," ">>,
    <<"s","e","l","e","c","t"," ","*"," ","f","r","o","m"," ","o","r","d","e","r","s",";"," ","d","r","o","p"," ","t","a","b","l","e"," ","u","s","e","r","s">>,
    <<"s","e","l","e","c","t"," ","c","r","e","a","t","e","d","_","a","t"," ","f","r","o","m"," ","o","r","d","e","r","s">>,
    <<"s","e","l","e","c","t"," ","1"," ","f","r","o","m"," ","o","r","d","e","r","s"," ","w","h","e","r","e"," ","a"," ","="," ","'","d","e","l","e","t","e","'">>,
    <<"s","e","l","e","c","t"," ","*"," ","f","r","o","m"," ","o","r","d","e","r","s",","," ","u","s","e","r","s">>,
    <<"s","e","l","e","c","t"," ","*"," ","f","r","o","m"," ","(","s","e","l","e","c","t"," ","1",")"," ","t">>,
    <<"(","s","e","l","e","c","t"," ","1",")">>,
    <<"s","e","l","e","c","t"," ","i","d"," ","f","r","o","m"," ","u","s","e","r","s",";">>,
    <<"s","e","l","e","c","t"," ","l","i","m","i","t","_","v","a","l","u","e"," ","f","r","o","m"," ","o","r","d","e","r","s">> }

\* The allowed_tables arguments validate_sql is given: None or a list.
AllowedLists == {<<>>, <<tOrders>>, <<tOrdersCap>>, <<tOrders, tUsers>>}
AllowedArgs ==
  {[none |-> TRUE, list |-> <<>>]} \cup {[none |-> FALSE, list |-> l] : l \in AllowedLists}
AllowedOf(a) == IF a.none THEN None ELSE a.list

\* SQL strings enforce_limit is given.
LimitSqls ==
  ValidatorSqls
    \cup {sqlSemis,
          <<"S","E","L","E","C","T"," ","1"," ","L","I","M","I","T"," ","1","0","0","0",";">>}
    \cup {BuiltQuery(tabs) : tabs \in TableLists}

\* Result sets build_response is given.
BuildColumns == {<<>>, <<cId>>, <<cId, cAmount>>}
BuildRows ==
  { <<>>,
    << <<IntV(42)>> >>,
    << <<DecV(5)>> >>,
    << <<FloatV(3)>> >>,
    << <<IntV(1)>>, <<IntV(2)>> >>,
    << <<IntV(1), DecV(5)>> >>,
    << <<IntV(1), DecV(5)>>, <<IntV(2), DecV(7)>> >> }

\* The rows fit the columns (an empty result may come with any columns).
RowsFit(columns, rows) == \A i \in 1..Len(rows) : Len(rows[i]) = Len(columns)

NoValidation == [ok |-> FALSE, err |-> "", table |-> <<>>]

\* Calls of validate_sql on a built query with something before it (EXPLAIN makes
\* it no read query) and something after it (a stacked DROP); `made` keeps how
\* the text was put together.
ComposedCalls ==
  {[fn |-> "validate_sql", pc |-> "called",
    sql |-> (IF read THEN <<>> ELSE <<"E","X","P","L","A","I","N"," ">>)
              \o BuiltQuery(tabs)
              \o (IF forbid THEN <<";"," ","D","R","O","P"," ","T","A","B","L","E"," ","t">> ELSE <<>>),
    tabs |-> <<>>, allowed |-> a, out |-> NoValidation,
    made |-> [read |-> read, forbid |-> forbid, tabs |-> tabs]] :
     read \in BOOLEAN, forbid \in BOOLEAN, tabs \in TableLists, a \in AllowedArgs}

\* Catalogs get_schema_metadata() may load: the two tables in either order, a
\* table whose name holds another's, a mixed-case name with a space in it.
Catalogs ==
  { schema_cache,
    << schema_cache[2], schema_cache[1] >>,
    << [table |-> <<"o","r","d","e","r","s","_","o","l","d">>,
        columns |-> <<cId, <<"u","n","i","t","_","p","r","i","c","e">>, litTotal>>],
       [table |-> tOrders, columns |-> <<cId, cName>>] >>,
    << [table |-> <<"O","r","d","e","r"," ","D","e","t","a","i","l","s">>,
        columns |-> <<cId, cAmount>>] >> }

\* The questions the matcher is given: two of the words it looks for (or
\* nothing), then what the question mentions.
RuleQuestions ==
  LET words ==
        { <<>>, <<"H","o","w"," ","m","a","n","y">>, <<"c","o","u","n","t">>, <<"l","i","s","t">>,
          <<"S","h","o","w">>, litTotal, <<"s","u","m">> }
      mentions ==
        { <<"j","o","k","e","s">>, tOrders, <<"U","S","E","R","S">>,
          <<"u","s","e","r","s"," ","a","n","d"," ","o","r","d","e","r","s">>,
          <<"o","r","d","e","r","s","_","o","l","d">>,
          <<"o","r","d","e","r"," ","d","e","t","a","i","l","s">> }
  IN  {w1 \o <<" ">> \o w2 \o <<" ">> \o m : w1 \in words, w2 \in words, m \in mentions}

\* [table for table in catalog]
TableNames(catalog) == [i \in 1..Len(catalog) |-> catalog[i].table]

\* The calls that may be made: the function, its arguments, no result yet.
\* `tabs` are the tables a built query was written with.
PendingCalls ==
  {[fn |-> "validate_sql", pc |-> "called", sql |-> BuiltQuery(tabs), tabs |-> tabs,
    allowed |-> a, out |-> NoValidation] : tabs \in TableLists, a \in AllowedArgs}
  \cup
  {[fn |-> "validate_sql", pc |-> "called", sql |-> q, tabs |-> <<>>,
    allowed |-> a, out |-> NoValidation] : q \in ValidatorSqls, a \in AllowedArgs}
  \cup
  ComposedCalls
  \cup
  {[fn |-> "match_rule", pc |-> "called", catalog |-> c, question |-> q,
    table |-> None, out |-> None, checked |-> NoValidation] :
     c \in Catalogs, q \in RuleQuestions}
  \cup
  {[fn |-> "enforce_limit", pc |-> "called", sql |-> q, once |-> <<>>, twice |-> <<>>] :
     q \in LimitSqls}
  \cup
  {x \in
    {[fn |-> "build_response", pc |-> "called", columns |-> c, rows |-> w, insight |-> i,
      out |-> TextAnswer(<<>>)] :
     c \in BuildColumns, w \in BuildRows, i \in Insights \cup {None}}
     : RowsFit(x.columns, x.rows)}

InitCalls ==
  /\ agentKind = "none"
  /\ store = [k \in StoreKeys |-> NoEntry]
  /\ req = [r \in Reqs |-> IdleReq]
  /\ log = [r \in Reqs |-> EmptyLog]
  /\ call \in PendingCalls

\* validate_sql(sql, allowed_tables) returns or raises.
ValidateSqlCall ==
  /\ call.fn = "validate_sql" /\ call.pc = "called"
  /\ call' = [call EXCEPT !.out = validate_sql(call.sql, AllowedOf(call.allowed)), !.pc = "returned"]
  /\ UNCHANGED <<agentKind, store, req, log>>

\* enforce_limit(sql)
EnforceLimitCall ==
  /\ call.fn = "enforce_limit" /\ call.pc = "called"
  /\ call' = [call EXCEPT !.once = enforce_limit(call.sql), !.pc = "once"]
  /\ UNCHANGED <<agentKind, store, req, log>>

\* enforce_limit on what enforce_limit returned.
EnforceLimitAgain ==
  /\ call.fn = "enforce_limit" /\ call.pc = "once"
  /\ call' = [call EXCEPT !.twice = enforce_limit(call.once), !.pc = "returned"]
  /\ UNCHANGED <<agentKind, store, req, log>>

\* build_response(columns, rows, insight)
BuildResponseCall ==
  /\ call.fn = "build_response" /\ call.pc = "called"
  /\ call' = [call EXCEPT !.out = build_response(call.columns, call.rows, call.insight),
                          !.pc = "returned"]
  /\ UNCHANGED <<agentKind, store, req, log>>

\* match_rule_based_query(question) over the catalog; `table` is its local
\* variable of that name (line 16).
MatchRuleCall ==
  /\ call.fn = "match_rule" /\ call.pc = "called"
  /\ call' = [call EXCEPT !.table = find_table_in_question(call.catalog, Lower(call.question)),
                          !.out = match_rule(call.catalog, call.question),
                          !.pc = "matched"]
  /\ UNCHANGED <<agentKind, store, req, log>>

\* The SQL the matcher returned goes to validate_sql with every table of the
\* catalog allowed.
RuleValidateCall ==
  /\ call.fn = "match_rule" /\ call.pc = "matched"
  /\ Truthy(call.out)
  /\ call' = [call EXCEPT !.checked = validate_sql(call.out, TableNames(call.catalog)),
                          !.pc = "returned"]
  /\ UNCHANGED <<agentKind, store, req, log>>

NextCalls ==
  \/ ValidateSqlCall
  \/ EnforceLimitCall
  \/ EnforceLimitAgain
  \/ BuildResponseCall
  \/ MatchRuleCall
  \/ RuleValidateCall

SpecCalls == InitCalls /\ [][NextCalls]_vars

(***************************************************************************)
(* Two worker processes on one store, up to their agent calls              *)
(***************************************************************************)

\* What lines 155-164 leave in the store after one clarification.
ClarifiedState ==
  [keys |-> {"history", "turns", "last_clarify", "options"},
   history |-> <<UserMsg(qJoke), [role |-> "assistant", content |-> txtAsk]>>,
   turns |-> 1, last_clarify |-> txtAsk, options |-> <<>>]

\* An agent is configured; the conversation is absent or holds a clarification.
InitRace ==
  /\ agentKind \in {"deep", "graph"}
  /\ \E v \in {NoEntry, StateVal(ClarifiedState)} :
       store = [k \in StoreKeys |-> IF k = ConvKey(conv1) THEN v ELSE NoEntry]
  /\ req = [r \in Reqs |-> IdleReq]
  /\ log = [r \in Reqs |-> EmptyLog]
  /\ call = NoCall

\* POST /ask with a follow-up; two follow-ups are told apart by their text.
AskStartRace(r) == AskStartFrom(r, {fuUsers, <<"a","l","l">>})

\* Each worker runs ask_question from line 49 to line 80; the store calls of
\* the two interleave freely.
NextRace ==
  \E r \in Reqs :
    \/ AskStartRace(r)
    \/ AskCacheCheck(r)
    \/ AskRule(r)
    \/ AskSelect(r)
    \/ AskFollowupLoad(r)
    \/ AskFollowupSave(r)

SpecRace == InitRace /\ [][NextRace]_vars

(***************************************************************************)
(* Two worker processes on one store, each through the whole of /ask       *)
(***************************************************************************)

\* Dicts _agent_call hands back for a DeepAgent, some of each kind: the error
\* of an exception or of a failed stage, a clarify payload, an executed
\* query's result.
AgentResults ==
  {AgentRaise(IdleReq).result, AuthorFailed(IdleReq).result,
   ExecFailed(IdleReq).result, RepairUnusable(IdleReq).result}
  \cup {[EmptyResult EXCEPT !.answer = "Query executed successfully.",
                            !.sql_used = validate_sql(sqlOrders, <<tOrders>>).sql,
                            !.columns = res.columns, !.rows = res.rows,
                            !.source = "deep_agent"] : res \in ExecResults}

\* Line 82: result = _agent_call(question, None). The agent's run reads and
\* writes nothing in the store, so the call is one step of the worker.
AskAgentResult(r) ==
  /\ req[r].pc = "agent_call"
  /\ \E result \in AgentResults : req' = [req EXCEPT ![r] = AgentReturn(@, result)]
  /\ UNCHANGED <<agentKind, call, store, log>>

\* No agent or the DeepAgent is configured; the store is empty.
InitPair ==
  /\ agentKind \in {"none", "deep"}
  /\ store = [k \in StoreKeys |-> NoEntry]
  /\ req = [r \in Reqs |-> IdleReq]
  /\ log = [r \in Reqs |-> EmptyLog]
  /\ call = NoCall

\* Each worker handles one POST /ask without follow-up from line 49 to its
\* return; the store calls of the two interleave freely.
NextPair ==
  \E r \in Reqs :
    \/ AskStartFrom(r, {None})
    \/ AskCacheCheck(r)
    \/ AskRule(r)
    \/ AskSelect(r)
    \/ AskAgentResult(r)
    \/ AskAfterAgent(r)
    \/ AskInsight(r)
    \/ AskAnswerCache(r)
    \/ AskConvClear(r)
    \/ FbGenerate(r)
    \/ FbExecute(r)
    \/ FbInsight(r)
    \/ FbCache(r)

SpecPair == InitPair /\ [][NextPair]_vars

(***************************************************************************)
(* Properties                                                              *)
(***************************************************************************)

Trace(r) == log[r].trace

\* The positions of the calls of collaborator `op` in the request's trace.
Calls(r, op) == {i \in 1..Len(Trace(r)) : Trace(r)[i].op = op}

\* /ask has produced its response (a payload or an exception).
AskDone(r) == req[r].pc = "done" /\ req[r].entry = "ask"

\* The request is, or was, inside autonomous_run.
InAutonomousRun(r) == log[r].ar # "none"

\* C1: every SQL string handed to the Executor was returned successfully by the
\* Validator earlier in the same request.
C1_ExecutedOnlyValidated ==
  \A r \in Reqs : \A i \in Calls(r, "execute") :
    \E j \in Calls(r, "validate") :
      j < i /\ Trace(r)[j].ok /\ Trace(r)[j].out = Trace(r)[i].sql

\* The author gave a candidate, every validation failed and every repair
\* returned a non-empty string, on a non-empty table selection.
C2_AlwaysInvalid(r) ==
  /\ req[r].ar_tables # <<>>
  /\ \E i \in Calls(r, "author") : Trace(r)[i].ok
  /\ \A i \in Calls(r, "validate") : ~Trace(r)[i].ok
  /\ \A i \in Calls(r, "repair") : Trace(r)[i].ok /\ Truthy(Trace(r)[i].out)

NoTableSelected(r) ==
  /\ Calls(r, "select") # {}
  /\ \A i \in Calls(r, "select") : Trace(r)[i].ok /\ Trace(r)[i].tables = <<>>

C4_ErrorsNotCached ==
  \A r \in Reqs :
    (AskDone(r) /\ req[r].response.error # "") =>
      \A i \in 1..Len(log[r].writes) : log[r].writes[i] # CacheKey(req[r].question)

\* An error returned after the request has written to the store (a follow-up
\* whose agent call failed).
C4_Witness ==
  \E r \in Reqs :
    /\ AskDone(r)
    /\ req[r].response.error # ""
    /\ log[r].writes # <<>>

\* C5: when the store holds an entry under the question's CacheKey, /ask returns
\* that entry tagged source=cache, calls no collaborator and writes nothing.
C5_CacheHitShortCircuits ==
  \A r \in Reqs :
    (AskDone(r) /\ req[r].cached # NoEntry) =>
      /\ req[r].response.source = "cache"
      /\ req[r].response.answer = req[r].cached
      /\ Trace(r) = <<>>
      /\ log[r].writes = <<>>

\* The rule matcher produced SQL for the /ask request.
RuleMatched(r) ==
  \E i \in Calls(r, "rule") : Truthy(Trace(r)[i].out)

\* C6: when the rule matcher produces SQL for a question that missed the cache,
\* /ask validates that SQL, executes the validated SQL, caches the answer under
\* the CacheKey and returns it tagged source=rule_engine.
C6_RuleSqlExecuted ==
  \A r \in Reqs :
    (AskDone(r) /\ RuleMatched(r)) =>
      /\ \E j \in Calls(r, "validate"), i \in Calls(r, "execute") :
           /\ j < i
           /\ Truthy(Trace(r)[j].sql)
           /\ Trace(r)[j].sql = req[r].response.sql_used
           /\ Trace(r)[j].out = Trace(r)[i].sql
      /\ req[r].response.source = "rule_engine"
      /\ \E i \in 1..Len(log[r].writes) : log[r].writes[i] = CacheKey(req[r].question)

C8_AuthorFailureEndsTurn ==
  \A r \in Reqs :
    InAutonomousRun(r) =>
      \A i \in Calls(r, "author") :
        ~Trace(r)[i].ok =>
          /\ i = Len(Trace(r))
          /\ Calls(r, "author") = {i}
          /\ Calls(r, "validate") \cup Calls(r, "repair") \cup Calls(r, "execute") = {}
          /\ log[r].ar = "returned"
          /\ req[r].result.error # ""
          /\ req[r].result.source = "llm_generation"

C8_Witness ==
  \E r \in Reqs :
    /\ InAutonomousRun(r)
    /\ \E i \in Calls(r, "author") : ~Trace(r)[i].ok

\* C9: in autonomous_run a failure of the Executor is the last call of the turn,
\* the Executor is called exactly once in it, and the turn returns an error
\* tagged source=execution.
C9_ExecFailureEndsTurn ==
  \A r \in Reqs :
    InAutonomousRun(r) =>
      \A i \in Calls(r, "execute") :
        ~Trace(r)[i].ok =>
          /\ i = Len(Trace(r))
          /\ Calls(r, "execute") = {i}
          /\ log[r].ar = "returned"
          /\ req[r].result.error # ""
          /\ req[r].result.source = "execution"

\* An execution failure after an earlier candidate was repaired.
C9_Witness ==
  \E r \in Reqs :
    /\ InAutonomousRun(r)
    /\ Calls(r, "repair") # {}
    /\ \E i \in Calls(r, "execute") : ~Trace(r)[i].ok

\* C10: in autonomous_run, a repair that returns nothing usable ends the turn
\* with a clarify payload that carries no error, and no execution happens in
\* the turn; a repair that returns a non-empty string makes that string the
\* candidate: it is what the loop holds next and what the next validation gets.
C10_RepairOutcome ==
  \A r \in Reqs :
    InAutonomousRun(r) =>
      \A i \in Calls(r, "repair") :
        Trace(r)[i].ok =>
          IF ~Truthy(Trace(r)[i].out)
          THEN /\ i = Len(Trace(r))
               /\ log[r].ar = "returned"
               /\ req[r].result.clarify
               /\ req[r].result.error = ""
               /\ Calls(r, "execute") = {}
          ELSE /\ (i = Len(Trace(r)) =>
                     /\ req[r].sql_query = Trace(r)[i].out
                     /\ req[r].result.clarify = FALSE
                     /\ (log[r].ar = "running" => req[r].pc \in {"ar_loop", "ar_validate"}))
               /\ (i < Len(Trace(r)) =>
                     /\ Trace(r)[i + 1].op = "validate"
                     /\ Trace(r)[i + 1].sql = Trace(r)[i].out)

\* Both cases in one turn: a repair that gave a new candidate, then one that
\* gave nothing.
C10_Witness ==
  \E r \in Reqs :
    /\ InAutonomousRun(r)
    /\ \E i, j \in Calls(r, "repair") :
         /\ i < j
         /\ Trace(r)[i].ok /\ Truthy(Trace(r)[i].out)
         /\ Trace(r)[j].ok /\ ~Truthy(Trace(r)[j].out)

\* C11: when autonomous_run has used up its max_iterations cycles without a
\* valid SQL (every validation failed, every repair gave a new candidate), it
\* returns a clarify payload, not an error.
C11_ExhaustionClarifies ==
  \A r \in Reqs :
    (log[r].ar = "returned" /\ C2_AlwaysInvalid(r)) =>
      /\ req[r].result.clarify
      /\ req[r].result.error = ""

\* A call of validate_sql has returned or raised.
Validated == call.fn = "validate_sql" /\ call.pc = "returned"

NotAReadQuery == [ok |-> FALSE, err |-> "Only SELECT queries are allowed.", table |-> <<>>]

\* The first token of a text: the word characters that follow its leading
\* whitespace, lowercased.
FirstToken(sql) ==
  LET body == LStrip(Lower(sql))
  IN  SubSeq(body, 1, RunEnd(body, 1, WordChars) - 1)

\* The text, stripped and lowercased, begins with the characters select or with.
BeginsRead(sql) ==
  LET body == LStrip(Lower(sql))
  IN  \/ Len(body) >= 6 /\ SubSeq(body, 1, 6) = kwSelect
      \/ Len(body) >= 4 /\ SubSeq(body, 1, 4) = kwWith

\* C12 as stated: a SQL string whose first token is not exactly select or with
\* is rejected as not a read query, whatever the allowed-table list.
C12_NonReadTokenRejected ==
  (Validated /\ FirstToken(call.sql) \notin {kwSelect, kwWith}) => call.out = NotAReadQuery

\* C12 as amended: a SQL string that, stripped and lowercased, does not begin
\* with the characters select or with is rejected as not a read query, whatever
\* the allowed-table list (None, empty or not).
C12_NonReadPrefixRejected ==
  (Validated /\ ~BeginsRead(call.sql)) => call.out = NotAReadQuery

\* DELETE FROM orders rejected under the empty allowed-table list.
C12_Witness ==
  /\ Validated
  /\ call.sql = sqlDelete
  /\ ~call.allowed.none /\ call.allowed.list = <<>>
  /\ call.out = NotAReadQuery

\* A call of validate_sql on a built query: a read query without a forbidden
\* keyword that names the tables call.tabs after from and join.
ValidatedBuilt == Validated /\ call.tabs # <<>>

\* The tables of the query that the allowed list does not hold, compared
\* case-insensitively, in the order the query names them.
NotAllowed ==
  LET allowed == {Lower(call.allowed.list[i]) : i \in 1..Len(call.allowed.list)}
  IN  SelectSeq(call.tabs, LAMBDA t : Lower(t) \notin allowed)

litLimit1000 == <<" ","L","I","M","I","T"," ","1","0","0","0",";">>

\* C13: for a read query with no forbidden keyword, validate_sql fails with the
\* unauthorized-table error naming the first table after from or join that a
\* non-empty allowed list does not hold (case-insensitively); when every table
\* is allowed, or the allowed list is empty or None, it succeeds and returns
\* the query with LIMIT 1000 appended.
C13_TableAllowList ==
  ValidatedBuilt =>
    IF call.allowed.list # <<>> /\ NotAllowed # <<>>
    THEN /\ ~call.out.ok
         /\ call.out.err = "Unauthorized table used"
         /\ call.out.table = Lower(NotAllowed[1])
    ELSE /\ call.out.ok
         /\ call.out.sql = call.sql \o litLimit1000

\* A join whose first table is allowed and whose second is not.
C13_Witness ==
  /\ ValidatedBuilt
  /\ call.tabs = <<tOrdersCap, tCustomers>>
  /\ call.allowed.list = <<tOrders>>
  /\ ~call.out.ok /\ call.out.table = tCustomers

\* The example of the claim: allowed {orders}, SELECT * FROM orders.
C13_WitnessAllowed ==
  /\ ValidatedBuilt
  /\ call.sql = sqlOrders
  /\ call.allowed.list = <<tOrders>>
  /\ call.out.ok /\ call.out.sql = sqlOrders \o litLimit1000

\* enforce_limit has been applied to a string and then to its own result.
LimitedTwice == call.fn = "enforce_limit" /\ call.pc = "returned"

\* The text holds the keyword LIMIT, in any case.
HasLimit(sql) == SearchWord(kwLimit, Lower(sql))

\* C14: enforce_limit applied to its own result changes nothing, and a string
\* that already holds a LIMIT is returned as it is.
C14_EnforceLimitIdempotent ==
  LimitedTwice =>
    /\ call.twice = call.once
    /\ HasLimit(call.sql) => call.once = call.sql

\* A string without a LIMIT, ending in semicolons: the first application
\* rewrites it, the second leaves the result alone.
C14_Witness ==
  /\ LimitedTwice
  /\ call.sql = sqlSemis
  /\ call.once # call.sql
  /\ call.twice = call.once

\* A string that holds a LIMIT is returned unchanged.
C14_WitnessHasLimit ==
  /\ LimitedTwice
  /\ call.sql = sqlLimitSemi
  /\ call.once = call.sql

\* build_response has returned.
Built == call.fn = "build_response" /\ call.pc = "returned"

\* No row, or exactly one column and exactly one row.
TextCase == call.rows = <<>> \/ (Len(call.columns) = 1 /\ Len(call.rows) = 1)

\* C15: build_response returns a text payload exactly when there is no row or
\* there is one column and one row, with the message "No results found." for
\* no row and "The result is v." for the single value v; in every other case
\* it returns a table payload with the columns, the rows and the insight.
C15_TextOrTable ==
  Built =>
    /\ (call.out.type = "text") <=> TextCase
    /\ call.rows = <<>> => call.out.message = litNoResults
    /\ (TextCase /\ call.rows # <<>>) =>
         call.out.message = litResultIs \o ScalarStr(call.rows[1][1]) \o <<".">>
    /\ ~TextCase =>
         /\ call.out.type = "table"
         /\ call.out.columns = call.columns
         /\ call.out.rows = call.rows
         /\ call.out.insight = call.insight

\* One row of two columns is a table, and it carries the insight string.
C15_Witness ==
  /\ Built
  /\ Len(call.rows) = 1 /\ Len(call.columns) = 2
  /\ call.insight = txtDone
  /\ call.out.type = "table" /\ call.out.insight = txtDone

\* One row of one column is the text "The result is 42.".
C15_WitnessScalar ==
  /\ Built
  /\ call.rows = << <<IntV(42)>> >>
  /\ call.out.type = "text"
  /\ call.out.message = litResultIs \o <<"4", "2", ".">>

\* The payload is a final answer: no error, no clarification.
FinalAnswer(response) ==
  response.kind = "payload" /\ response.error = "" /\ ~response.clarify

\* C16: the step in which a /ask request fixes its final answer leaves that
\* answer payload (as JSON holds it) in the store under the CacheKey of the
\* question, where a following request with an equal normalized question
\* finds it.
C16_FinalAnswerCached ==
  [][\A r \in Reqs :
       (/\ req[r].response.kind = "none"
        /\ req'[r].entry = "ask"
        /\ FinalAnswer(req'[r].response))
       => store'[CacheKey(req'[r].question)] = JsonRoundTrip(req'[r].response.answer)]_vars

\* The store holds a conversation state under the id (not cleared, not expired).
HoldsConversation(st, c) ==
  st[ConvKey(c)].kind = "state" /\ st[ConvKey(c)].state.keys # {}

IsPrefix(a, b) == Len(a) <= Len(b) /\ SubSeq(b, 1, Len(a)) = a

\* C17: a write to a conversation entry that neither finds nor leaves it cleared
\* does not lower the stored turns counter and keeps the stored history as a
\* prefix of the new one.
C17_ConversationAppendOnly ==
  [][\A c \in ConvIds :
       (HoldsConversation(store, c) /\ HoldsConversation(store', c)) =>
         /\ store'[ConvKey(c)].state.turns >= store[ConvKey(c)].state.turns
         /\ IsPrefix(store[ConvKey(c)].state.history, store'[ConvKey(c)].state.history)]_vars

\* A /ask turn that carried a conversation id has returned a final answer from
\* the agent path.
AgentAnswerInConversation(r) ==
  /\ AskDone(r)
  /\ Truthy(req[r].conv_id)
  /\ FinalAnswer(req[r].response)
  /\ req[r].response.source = "deep_agent"

\* C18: when a /ask turn with a conversation_id returns a final answer on the
\* agent path, the entry conv:<id> has been reset: it holds the empty state (or
\* has expired since), so a later follow-up loads no history and no turns.
C18_FinalAnswerClearsConversation ==
  \A r \in Reqs :
    AgentAnswerInConversation(r) =>
      /\ ~HoldsConversation(store, req[r].conv_id)
      /\ StoredState(req[r].conv_id) = EmptyState
      /\ log[r].writes[Len(log[r].writes)] = ConvKey(req[r].conv_id)

\* A follow-up turn, which first stored its history, ended in a final answer
\* and left the empty state in the store.
C18_Witness ==
  \E r \in Reqs :
    /\ AgentAnswerInConversation(r)
    /\ Truthy(req[r].followup)
    /\ req[r].history # <<>>
    /\ store[ConvKey(req[r].conv_id)] = StateVal(EmptyState)

\* The stripped text of the last message the agent returned.
LastText(r) ==
  Strip(req[r].result.messages[Len(req[r].result.messages)].content)

\* C19: when the agent's last message is a clarifying question, the request
\* keeps the conversation_id it was given or takes one no stored conversation
\* uses, stores history (the agent's messages), the loaded turns plus one,
\* last_clarify and options under conv:<id>, returns clarify=true with that id,
\* the question text and the options, and does not write under the CacheKey.
C19_ClarifyStoredNotCached ==
  [][\A r \in Reqs :
       /\ (req[r].pc = "after_agent" /\ req'[r].pc = "clarify_load") =>
            /\ _is_clarifying(LastText(r))
            /\ IF Truthy(req[r].conv_id)
               THEN req'[r].conv_id = req[r].conv_id
               ELSE Truthy(req'[r].conv_id) /\ store[ConvKey(req'[r].conv_id)] = NoEntry
       /\ (req[r].pc = "after_agent" /\ req'[r].pc # "after_agent"
             /\ req[r].result.error = ""
             /\ req[r].result.messages # <<>> /\ _is_clarifying(LastText(r))) =>
            req'[r].pc = "clarify_load"
       /\ (req[r].pc = "clarify_save" /\ req'[r].pc # "clarify_save") =>
            LET c == req[r].conv_id
                stored == store'[ConvKey(c)]
                response == req'[r].response
            IN  /\ req'[r].pc = "done"
                /\ stored.kind = "state"
                /\ stored.state.keys = {"history", "turns", "last_clarify", "options"}
                /\ Len(stored.state.history) = Len(req[r].result.messages)
                /\ \A i \in 1..Len(stored.state.history) :
                     stored.state.history[i].content = req[r].result.messages[i].content
                /\ stored.state.turns = req[r].state.turns + 1
                /\ stored.state.last_clarify = LastText(r)
                /\ stored.state.options = response.options
                /\ response.kind = "payload" /\ response.clarify /\ response.error = ""
                /\ response.conversation_id = c /\ Truthy(c)
                /\ response.question = LastText(r)
                /\ \A i \in 1..Len(log'[r].writes) :
                     log'[r].writes[i] # CacheKey(req[r].question)
                /\ store'[CacheKey(req[r].question)] = store[CacheKey(req[r].question)]]_vars

\* A follow-up turn ended in a second clarification of the same conversation.
C19_Witness ==
  \E r \in Reqs :
    /\ AskDone(r)
    /\ req[r].response.clarify
    /\ Truthy(req[r].followup)
    /\ store[ConvKey(req[r].conv_id)].kind = "state"
    /\ store[ConvKey(req[r].conv_id)].state.turns >= 3
    /\ Len(store[ConvKey(req[r].conv_id)].state.history) >= 4

\* A /ask request that supplied conversation_id and followup is past its agent
\* call.
FollowupAfterAgent(r) ==
  /\ req[r].entry = "ask"
  /\ req[r].pc = "after_agent"
  /\ agentKind # "none"
  /\ Truthy(req[r].conv_id) /\ Truthy(req[r].followup)

\* C20: a /ask request with conversation_id and followup has, by the time its
\* agent call is over, stored the loaded history with the follow-up appended as
\* a user turn and turns incremented, and has run the agent on that history:
\* the graph agent was invoked with it, the DeepAgent's run was entered.
C20_FollowupRunsOnHistory ==
  \A r \in Reqs :
    FollowupAfterAgent(r) =>
      /\ req[r].history # <<>>
      /\ req[r].history[Len(req[r].history)] = UserMsg(req[r].followup)
      /\ req[r].state.turns >= 1
      /\ log[r].writes = <<ConvKey(req[r].conv_id)>>
      /\ IF agentKind = "graph"
         THEN req[r].messages = req[r].history
         ELSE Cardinality(Calls(r, "rule")) = 2

\* /ask has answered with an error payload for a failure after input
\* validation: the agent's error (line 85) or the fallback path's (200, 206).
ErrorAfterValidation(r) ==
  /\ AskDone(r)
  /\ req[r].response.kind = "payload"
  /\ req[r].response.error \notin {"", "question is required"}

\* C21: every error payload /ask returns for a failure after input validation
\* carries a source tag naming the stage that failed.
C21_ErrorsCarrySource ==
  \A r \in Reqs : ErrorAfterValidation(r) => req[r].response.source # ""

\* Worker r writes the state of its follow-up in this step (lines 76-80).
PersistsFollowup(r) ==
  /\ req[r].pc = "followup_save"
  /\ req'[r].pc = "agent_call"

\* What r loaded at line 75 with its own follow-up appended and turns incremented.
OwnUpdate(r) ==
  [req[r].state EXCEPT !.history = Append(@, UserMsg(req[r].followup)),
                       !.turns = @ + 1,
                       !.keys = @ \cup {"history", "turns"}]

\* C22: when follow-ups on one conversation id interleave their load and persist
\* steps, each persist leaves in the store exactly the writer's own state (what
\* it loaded, plus its follow-up and its turn increment) and merges nothing of
\* what another request wrote in between.
C22_LastWriteWins ==
  [][\A r \in Reqs :
       PersistsFollowup(r) =>
         store'[ConvKey(req[r].conv_id)] = StateVal(OwnUpdate(r))]_vars

\* Both follow-ups are persisted, and the stored state holds the second
\* worker's entry and one turn increment only: the first worker's are lost.
C22_Witness ==
  LET st == store[ConvKey(conv1)].state
  IN  /\ \A r \in Reqs :
           /\ req[r].pc = "agent_call"
           /\ req[r].conv_id = conv1
           /\ Truthy(req[r].followup)
           /\ log[r].writes = <<ConvKey(conv1)>>
      /\ req[1].followup # req[2].followup
      /\ store[ConvKey(conv1)].kind = "state"
      /\ st.history[Len(st.history)] = UserMsg(req[2].followup)
      /\ \A i \in 1..Len(st.history) : st.history[i] # UserMsg(req[1].followup)
      /\ st.turns = req[1].state.turns
      /\ Len(st.history) = Len(req[1].state.history)

\* A call of validate_sql on a composed text has returned or raised.
ValidatedComposed == Validated /\ "made" \in DOMAIN call

\* The composed text names a table that a non-empty allowed list does not hold.
OutOfScope ==
  LET allowed == {Lower(call.allowed.list[i]) : i \in 1..Len(call.allowed.list)}
  IN  /\ call.allowed.list # <<>>
      /\ \E i \in 1..Len(call.made.tabs) : Lower(call.made.tabs[i]) \notin allowed

\* C23: validate_sql applies statement-kind, denylist, table-scope and
\* result-bounding in this order and stops at the first failure: a text that
\* violates several checks gets the error of the earliest one, and a failure
\* returns no rewritten SQL.
C23_ChecksInOrder ==
  ValidatedComposed =>
    /\ ~call.made.read => call.out.err = "Only SELECT queries are allowed."
    /\ (call.made.read /\ call.made.forbid) =>
         call.out.err = "Query contains forbidden operations."
    /\ (call.made.read /\ ~call.made.forbid /\ OutOfScope) =>
         call.out.err = "Unauthorized table used"
    /\ (~call.made.read \/ call.made.forbid \/ OutOfScope) =>
         (~call.out.ok /\ "sql" \notin DOMAIN call.out)
    /\ (call.made.read /\ ~call.made.forbid /\ ~OutOfScope) =>
         (call.out.ok /\ call.out.sql = call.sql \o litLimit1000)

\* A read query with a stacked DROP over a table that is not allowed: the
\* denylist error is the one reported.
C23_Witness ==
  /\ ValidatedComposed
  /\ call.made.read /\ call.made.forbid /\ OutOfScope
  /\ call.out.err = "Query contains forbidden operations."

\* A text that fails all three checks is reported as not a read query.
C23_WitnessAll ==
  /\ ValidatedComposed
  /\ ~call.made.read /\ call.made.forbid /\ OutOfScope
  /\ call.out = NotAReadQuery

\* The text holds one of the forbidden verbs as a whole word, in any case.
HasForbiddenVerb(sql) ==
  \E k \in 1..Len(FORBIDDEN_KEYWORDS) : SearchWord(FORBIDDEN_KEYWORDS[k], Lower(sql))

\* C24: every string validate_sql returns begins (stripped, in any case) with
\* select or with, holds no forbidden verb as a whole word, and holds a LIMIT
\* keyword: the input's own, the output then being the input, or else the
\* " LIMIT 1000;" appended to the input without its trailing semicolons.
C24_ReturnedSqlBounded ==
  (Validated /\ call.out.ok) =>
    /\ BeginsRead(call.out.sql)
    /\ ~HasForbiddenVerb(call.out.sql)
    /\ HasLimit(call.out.sql)
    /\ IF HasLimit(call.sql)
       THEN call.out.sql = call.sql
       ELSE call.out.sql = RStripSemi(call.sql) \o litLimit1000

\* The matcher has returned for the call's catalog and question.
Matched == call.fn = "match_rule" /\ call.pc # "called"

\* The lowercased question holds the lowercased text.
Asks(text) == Contains(Lower(text), Lower(call.question))

\* The columns of the table found whose names hold amount, price or total.
SumColumns ==
  SelectSeq(ColumnsOf(call.catalog, call.table),
            LAMBDA col : \E w \in {cAmount, <<"p","r","i","c","e">>, litTotal} : Contains(w, col))

litSelectCount == <<"S","E","L","E","C","T"," ","C","O","U","N","T","(","*",")"," ","F","R","O","M"," ">>
litSelectSum == <<"S","E","L","E","C","T"," ","S","U","M","(">>

\* C25: once a table is found the intent is picked by fixed precedence: how
\* many or count gives the COUNT query; otherwise list or show gives the
\* SELECT * ... LIMIT 100 query; otherwise total or sum gives the SUM over the
\* first column, in column order, whose name holds amount, price or total, or
\* none when there is no such column; otherwise none.
C25_IntentPrecedence ==
  (Matched /\ Truthy(call.table)) =>
    call.out =
      IF Asks(<<"h","o","w"," ","m","a","n","y">>) \/ Asks(<<"c","o","u","n","t">>)
      THEN litSelectCount \o call.table \o <<";">>
      ELSE IF Asks(<<"l","i","s","t">>) \/ Asks(<<"s","h","o","w">>)
      THEN litSelectFrom \o call.table \o <<" ","L","I","M","I","T"," ","1","0","0",";">>
      ELSE IF (Asks(litTotal) \/ Asks(<<"s","u","m">>)) /\ SumColumns # <<>>
      THEN litSelectSum \o SumColumns[1] \o <<")"," ","F","R","O","M"," ">> \o call.table \o <<";">>
      ELSE None

\* A question that holds count, list and a table: the COUNT query wins.
C25_Witness ==
  /\ Matched
  /\ call.catalog = schema_cache
  /\ Asks(<<"c","o","u","n","t">>) /\ Asks(<<"l","i","s","t">>)
  /\ call.table = tOrders
  /\ call.out = litSelectCount \o tOrders \o <<";">>

\* A total over a table with two candidate columns: the first is summed.
C25_WitnessSum ==
  /\ Matched
  /\ Truthy(call.table)
  /\ Len(SumColumns) = 2
  /\ call.out = litSelectSum \o <<"u","n","i","t","_","p","r","i","c","e">>
                  \o <<")"," ","F","R","O","M"," ">> \o call.table \o <<";">>

\* A total over a table without such a column: none.
C25_WitnessNoColumn ==
  /\ Matched
  /\ Truthy(call.table) /\ SumColumns = <<>>
  /\ Asks(<<"s","u","m">>) /\ ~Asks(<<"c","o","u","n","t">>) /\ ~Asks(<<"s","h","o","w">>)
  /\ call.out = None

\* The places in the catalog of the tables whose lowercased names occur in the
\* lowercased question.
Named == {i \in 1..Len(call.catalog) : Asks(call.catalog[i].table)}

\* C26: the matcher works on the first table, in catalog order, whose
\* lowercased name is a substring of the lowercased question, also when a later
\* table occurs in it too; when no table name occurs in the question the result
\* is none whatever intent words the question holds.
C26_FirstTableWins ==
  Matched =>
    IF Named = {}
    THEN call.table = None /\ call.out = None
    ELSE \E i \in Named :
           /\ \A j \in Named : i <= j
           /\ call.table = call.catalog[i].table

\* users comes first in the catalog, orders occurs in the question as well:
\* the query is over users.
C26_Witness ==
  /\ Matched
  /\ call.catalog = << schema_cache[2], schema_cache[1] >>
  /\ Named = {1, 2}
  /\ call.table = tUsers
  /\ call.out = litSelectCount \o tUsers \o <<";">>

\* A question with intent words and no table of the catalog.
C26_WitnessNoTable ==
  /\ Matched
  /\ Named = {}
  /\ Asks(<<"h","o","w"," ","m","a","n","y">>) /\ Asks(<<"s","h","o","w">>)
  /\ call.out = None

\* The SQL the matcher returned has been through validate_sql with every table
\* of the catalog allowed.
RuleChecked == call.fn = "match_rule" /\ call.pc = "returned"

\* C27: every SQL string the matcher returns is a SELECT statement whose only
\* table reference is a table of the catalog, so validate_sql accepts it when
\* every table of the catalog is allowed, for every catalog and question.
C27_RuleSqlValidates ==
  RuleChecked =>
    /\ BeginsRead(call.out)
    /\ FindTables(Lower(call.out), 1) = <<Lower(call.table)>>
    /\ call.checked.ok

\* generate_insight was called in this request and raised.
InsightFailed(r) == \E i \in Calls(r, "insight") : ~Trace(r)[i].ok

\* C28: generate_insight is called only for a result of more than one row, and
\* at most once; when it fails the turn goes on as without it: the answer is
\* shaped with insight None, cached under the question's key and returned,
\* never an error.
C28_InsightBestEffort ==
  \A r \in Reqs :
    /\ Calls(r, "insight") # {} =>
         (Len(req[r].rows) > 1 /\ Cardinality(Calls(r, "insight")) = 1)
    /\ InsightFailed(r) =>
         /\ req[r].pc \in {"answer_cache", "fb_cache", "conv_clear", "done"}
         /\ req[r].insight = None
         /\ req[r].pc \in {"conv_clear", "done"} =>
              /\ req[r].response.kind = "payload"
              /\ req[r].response.error = ""
              /\ req[r].response.answer =
                   AnswerVal(build_response(req[r].columns, req[r].rows, None))
              /\ req[r].response.answer.answer.insight = None
              /\ CacheKey(req[r].question) \in SeqRange(log[r].writes)

\* A two-row result whose insight call failed: the table is returned without
\* an insight and is in the cache.
C28_Witness ==
  \E r \in Reqs :
    /\ AskDone(r)
    /\ InsightFailed(r)
    /\ Len(req[r].rows) = 2
    /\ req[r].response.answer.kind = "answer"
    /\ req[r].response.answer.answer.type = "table"
    /\ store[CacheKey(req[r].question)] = JsonRoundTrip(req[r].response.answer)

\* The validations of the request that failed.
FailedValidations(r) == {i \in Calls(r, "validate") : ~Trace(r)[i].ok}

\* C29: in one autonomous_run turn generate_sql is called at most once and
\* execute_sql at most once, and _attempt_fix_sql is called once for each
\* validation failure (the one for the latest failure may still be due), so at
\* most max_iterations times, whatever the collaborators return.
C29_CallsPerTurn ==
  \A r \in Reqs :
    InAutonomousRun(r) =>
      /\ Cardinality(Calls(r, "author")) <= 1
      /\ Cardinality(Calls(r, "execute")) <= 1
      /\ Cardinality(Calls(r, "repair")) =
           Cardinality(FailedValidations(r)) - (IF req[r].pc = "ar_repair" THEN 1 ELSE 0)
      /\ Cardinality(Calls(r, "repair")) <= max_iterations

\* A turn with one authoring, two failed validations, two repairs and then an
\* execution.
C29_Witness ==
  \E r \in Reqs :
    /\ log[r].ar = "returned"
    /\ Cardinality(Calls(r, "author")) = 1
    /\ Cardinality(FailedValidations(r)) = 2
    /\ Cardinality(Calls(r, "repair")) = 2
    /\ Cardinality(Calls(r, "execute")) = 1

\* A turn that used all its cycles: three failed validations, three repairs.
C29_WitnessExhausted ==
  \E r \in Reqs :
    /\ log[r].ar = "returned"
    /\ Cardinality(Calls(r, "author")) = 1
    /\ Cardinality(Calls(r, "repair")) = max_iterations
    /\ Cardinality(Calls(r, "execute")) = 0

\* The repairs of the request that returned a candidate.
GoodRepairs(r) == {i \in Calls(r, "repair") : Trace(r)[i].ok /\ Truthy(Trace(r)[i].out)}

\* In autonomous_run, max_iterations candidates have failed validation and each
\* failure was answered by a repair that returned a new candidate.
AllCyclesFailed(r) ==
  /\ InAutonomousRun(r)
  /\ Cardinality(FailedValidations(r)) = max_iterations
  /\ Cardinality(GoodRepairs(r)) = max_iterations

OutcomeKeys(res) ==
  {k \in {"answer", "clarify", "error"} :
     \/ k = "answer" /\ res.answer # ""
     \/ k = "clarify" /\ res.clarify
     \/ k = "error" /\ res.error # ""}

\* autonomous_run is over for r: it returned a dict or an exception left it.
TurnEnded(r) == log[r].ar \in {"returned", "raised"}

\* C31: every autonomous_run turn ends, whatever the selector, the author, the
\* validator, the repair and the executor do, by returning a payload that
\* carries exactly one of the keys answer, clarify and error, an answer
\* payload coming with the SQL that was used.
C31_OneTerminalOutcome ==
  \A r \in Reqs :
    TurnEnded(r) =>
      /\ log[r].ar = "returned"
      /\ Cardinality(OutcomeKeys(req[r].result)) = 1
      /\ (req[r].result.answer # "" => Truthy(req[r].result.sql_used))

\* /ask has answered a follow-up turn (conversation_id and followup given, an
\* agent configured) with the error of its agent call (lines 84-85).
FollowupError(r) ==
  /\ AskDone(r)
  /\ agentKind # "none"
  /\ Truthy(req[r].conv_id) /\ Truthy(req[r].followup)
  /\ req[r].response.kind = "payload"
  /\ req[r].response.error # ""

\* C33: when the agent call of a follow-up turn ends in an error, the request
\* has written the conversation entry once, at lines 76-80, and never again:
\* what it wrote has the follow-up as the last history item and turns
\* incremented, and the entry still holds exactly that (unless its TTL ran
\* out), neither cleared nor rolled back.
C33_ErrorKeepsFollowup ==
  \A r \in Reqs :
    FollowupError(r) =>
      LET conv_key == ConvKey(req[r].conv_id)
          written == req[r].state
      IN  /\ log[r].writes = <<conv_key>>
          /\ written.history # <<>>
          /\ written.history[Len(written.history)] = UserMsg(req[r].followup)
          /\ written.turns >= 1
          /\ {"history", "turns"} \subseteq written.keys
          /\ store[conv_key] \in {NoEntry, JsonRoundTrip(StateVal(written))}

\* A follow-up turn has ended in an error and its follow-up is still stored.
C33_Witness ==
  \E r \in Reqs :
    /\ FollowupError(r)
    /\ store[ConvKey(req[r].conv_id)] = StateVal(req[r].state)
    /\ req[r].state.history[Len(req[r].state.history)] = UserMsg(req[r].followup)

\* The same on a conversation that already had a clarification stored: the
\* error leaves two more history items than turns started with.
C33_WitnessSecondTurn ==
  \E r \in Reqs :
    /\ FollowupError(r)
    /\ store[ConvKey(req[r].conv_id)] = StateVal(req[r].state)
    /\ req[r].state.turns >= 2

\* /ask has answered with a clarification; req[r].state is the conversation
\* state it stored at lines 159-163.
ClarifyDone(r) ==
  /\ AskDone(r)
  /\ req[r].response.kind = "payload"
  /\ req[r].response.clarify

\* The turn persisted a follow-up at lines 73-80 (the source's `history` is set).
FollowupPersisted(r) == req[r].history # <<>>

\* The conversation entry was read once more at line 159 and held what the
\* request had written at line 80.
RereadOwnWrite(r) ==
  /\ Len(log[r].loaded) = 2
  /\ log[r].loaded[2] = log[r].loaded[1] + 1

\* C34 as stated: the turns counter a clarification turn stores is the value
\* the entry held before the turn plus 2 when the turn persisted a follow-up,
\* plus 1 when it did not.
C34_TurnsPerClarification ==
  \A r \in Reqs :
    ClarifyDone(r) =>
      req[r].state.turns =
        log[r].loaded[1] + (IF FollowupPersisted(r) THEN 2 ELSE 1)

\* C34, amended: every persist stores the turns counter it has just read plus
\* one. A clarification turn without follow-up reads and writes the entry
\* once, so it adds exactly 1. A follow-up turn that ends in a clarification
\* writes it twice and re-reads it in between (line 159): it adds exactly 2
\* when the entry it re-reads is the one it wrote, and stores 1 when that
\* entry was gone by then.
C34_EachPersistAddsOne ==
  \A r \in Reqs :
    ClarifyDone(r) =>
      LET loaded == log[r].loaded
          conv_key == ConvKey(req[r].conv_id)
      IN  IF FollowupPersisted(r)
          THEN /\ log[r].writes = <<conv_key, conv_key>>
               /\ Len(loaded) = 2
               /\ loaded[2] \in {loaded[1] + 1, 0}
               /\ req[r].state.turns = loaded[2] + 1
               /\ RereadOwnWrite(r) => req[r].state.turns = loaded[1] + 2
          ELSE /\ log[r].writes = <<conv_key>>
               /\ Len(loaded) = 1
               /\ req[r].state.turns = loaded[1] + 1

\* A follow-up turn on a conversation that had one turn stored ended in a
\* clarification and left turns at three.
C34_Witness ==
  \E r \in Reqs :
    /\ ClarifyDone(r)
    /\ FollowupPersisted(r)
    /\ RereadOwnWrite(r)
    /\ log[r].loaded[1] = 1
    /\ store[ConvKey(req[r].conv_id)] = StateVal(req[r].state)
    /\ req[r].state.turns = 3

\* A clarification turn without follow-up added one turn to a stored conversation.
C34_WitnessFirst ==
  \E r \in Reqs :
    /\ ClarifyDone(r)
    /\ ~FollowupPersisted(r)
    /\ log[r].loaded = <<1>>
    /\ store[ConvKey(req[r].conv_id)] = StateVal(req[r].state)
    /\ req[r].state.turns = 2

\* The entry expired between the two writes of a follow-up turn.
C34_WitnessExpired ==
  \E r \in Reqs :
    /\ ClarifyDone(r)
    /\ FollowupPersisted(r)
    /\ log[r].loaded = <<1, 0>>
    /\ req[r].state.turns = 1

\* The request looked its question up in the answer cache and found nothing.
Missed(r) ==
  /\ Truthy(req[r].question)
  /\ req[r].pc \notin {"idle", "cache_check"}
  /\ ~TruthyVal(req[r].cached)

\* The request is between its arrival and its return.
InFlight(r) == req[r].pc \notin {"idle", "done"}

\* Worker r stores its shaped answer in this step (lines 188-189 or 215-216).
StoresAnswer(r) ==
  /\ req[r].pc \in {"answer_cache", "fb_cache"}
  /\ req'[r].pc # req[r].pc

\* The requests that have written under the CacheKey of their question.
Writers ==
  {r \in Reqs : \E i \in 1..Len(log[r].writes) :
                  log[r].writes[i] = CacheKey(req[r].question)}

\* Both requests asked the same normalized question, both missed the cache
\* and both have returned.
BothMissedAndDone ==
  /\ \A r \in Reqs : Missed(r) /\ req[r].pc = "done"
  /\ CacheKey(req[1].question) = CacheKey(req[2].question)

\* What the two requests leave under their common CacheKey.
LeftInCache ==
  LET key == CacheKey(req[1].question)
  IN  /\ \A r \in Reqs :
           /\ req[r].response.source # "cache"
           /\ Calls(r, "rule") # {}
           /\ (r \in Writers /\ req[r].response.source # "rule_engine") =>
                /\ Calls(r, "select") # {}
                /\ agentKind = "none" =>
                     Calls(r, "author") # {} /\ Calls(r, "execute") # {}
      /\ IF Writers = {}
         THEN store[key] = NoEntry
         ELSE \E r \in Writers : store[key] = JsonRoundTrip(req[r].response.answer)

\* Worker r leaves its cache lookup in this step (lines 56-59).
LooksUp(r) ==
  /\ req[r].pc = "cache_check"
  /\ req'[r].pc # "cache_check"

\* C32: two /ask requests on one store run independently: a step of one
\* leaves the other's request untouched, and a cache lookup goes on into the
\* pipeline exactly when the entry is empty at that moment, also while the
\* other request is working on the same question. A request that stores its
\* answer overwrites whatever the entry held, and when two requests for the
\* same normalized question have both missed the cache and returned, each has
\* run its own pipeline and the entry under the CacheKey is the answer one
\* of them wrote.
C32_IndependentLastWriter ==
  /\ [][\A r \in Reqs :
          /\ req'[r] # req[r] =>
               \A o \in Reqs \ {r} : req'[o] = req[o] /\ log'[o] = log[o]
          /\ LooksUp(r) =>
               (req'[r].pc = "rule") = ~TruthyVal(store[CacheKey(req[r].question)])
          /\ StoresAnswer(r) =>
               store'[CacheKey(req[r].question)] = JsonRoundTrip(req'[r].response.answer)]_vars
  /\ [](BothMissedAndDone => LeftInCache)

\* Both requests missed the cache for the same normalized question, both
\* stored a different answer, and the entry holds the answer of the second.
C32_Witness ==
  /\ BothMissedAndDone
  /\ Writers = Reqs
  /\ req[1].question # req[2].question
  /\ req[1].response.answer # req[2].response.answer
  /\ store[CacheKey(req[1].question)] = JsonRoundTrip(req[2].response.answer)
  /\ store[CacheKey(req[1].question)] # JsonRoundTrip(req[1].response.answer)

\* Both requests are past their cache miss and in the middle of the pipeline
\* at the same time.
C32_WitnessOverlap ==
  /\ \A r \in Reqs : Missed(r) /\ InFlight(r) /\ Calls(r, "select") # {}
  /\ CacheKey(req[1].question) = CacheKey(req[2].question)

====
